---- MODULE Spec2Model ----
(***************************************************************************)
(* Query orchestration and validation pipeline of SynGen-ai:               *)
(*   Backend/services/ai/unified_query_service.py  (primary pipeline)      *)
(*   Backend/services/ai/agentic_team_system.py    (fallback pipeline)     *)
(*   Backend/main_app.py                           (orchestrating handler) *)
(*   Backend/services/database/db.py               (Redis schema cache)    *)
(*                                                                         *)
(* A query text is modelled by its token sequence.  The text a sequence    *)
(* stands for is the concatenation of its tokens, with one blank between   *)
(* two adjacent word tokens; every other blank or newline is an explicit   *)
(* " " or "\n" token.  The regular expressions of the validators are       *)
(* evaluated on that text, token by token.  The token "<fence>" stands for *)
(* the three backquotes of a Markdown code fence.                          *)
(***************************************************************************)
EXTENDS Integers, Sequences, FiniteSets, TLC

(***************************************************************************)
(* Bounds of the model.                                                    *)
(***************************************************************************)
MaxAppend == 2

(***************************************************************************)
(* Tokens.                                                                 *)
(***************************************************************************)
Keywords ==
  {"DROP", "DELETE", "UPDATE", "INSERT", "ALTER", "TRUNCATE", "CREATE", "GRANT", "REVOKE"}

\* the lower-case and mixed-case word tokens of the model, upper-cased
UpperTable ==
  ("Error" :> "ERROR") @@ ("Query" :> "QUERY") @@
  ("Southwest" :> "SOUTHWEST") @@ ("as" :> "AS") @@
  ("avg_profit_ratio" :> "AVG_PROFIT_RATIO") @@ ("avg_sales" :> "AVG_SALES") @@
  ("avg_shipping_days" :> "AVG_SHIPPING_DAYS") @@ ("c" :> "C") @@
  ("category_name" :> "CATEGORY_NAME") @@ ("customer_id" :> "CUSTOMER_ID") @@
  ("customers" :> "CUSTOMERS") @@
  ("days_for_shipment_scheduled" :> "DAYS_FOR_SHIPMENT_SCHEDULED") @@
  ("days_for_shipping_real" :> "DAYS_FOR_SHIPPING_REAL") @@ ("drop" :> "DROP") @@
  ("dropped" :> "DROPPED") @@ ("first_name" :> "FIRST_NAME") @@
  ("last_name" :> "LAST_NAME") @@ ("limit" :> "LIMIT") @@ ("message" :> "MESSAGE") @@
  ("not" :> "NOT") @@ ("o" :> "O") @@ ("oi" :> "OI") @@
  ("on_time_orders" :> "ON_TIME_ORDERS") @@
  ("on_time_percentage" :> "ON_TIME_PERCENTAGE") @@ ("order_count" :> "ORDER_COUNT") @@
  ("order_country" :> "ORDER_COUNTRY") @@ ("order_id" :> "ORDER_ID") @@
  ("order_items" :> "ORDER_ITEMS") @@ ("order_region" :> "ORDER_REGION") @@
  ("order_status" :> "ORDER_STATUS") @@ ("orders" :> "ORDERS") @@ ("p" :> "P") @@
  ("pattern" :> "PATTERN") @@ ("product_id" :> "PRODUCT_ID") @@
  ("product_name" :> "PRODUCT_NAME") @@ ("product_price" :> "PRODUCT_PRICE") @@
  ("products" :> "PRODUCTS") @@ ("profit_ratio" :> "PROFIT_RATIO") @@
  ("recognized" :> "RECOGNIZED") @@ ("sales" :> "SALES") @@ ("segment" :> "SEGMENT") @@
  ("select" :> "SELECT") @@ ("shipping_mode" :> "SHIPPING_MODE") @@
  ("total_customers" :> "TOTAL_CUSTOMERS") @@
  ("total_order_value" :> "TOTAL_ORDER_VALUE") @@ ("total_orders" :> "TOTAL_ORDERS") @@
  ("total_products" :> "TOTAL_PRODUCTS") @@ ("total_records" :> "TOTAL_RECORDS") @@
  ("total_sales" :> "TOTAL_SALES") @@ ("total_sales_amount" :> "TOTAL_SALES_AMOUNT") @@
  ("update" :> "UPDATE") @@ ("xp_cmdshell" :> "XP_CMDSHELL")

\* str.upper() / re.IGNORECASE on one token
Upper(t) == IF t \in DOMAIN UpperTable THEN UpperTable[t] ELSE t

\* the upper-cased token u begins with the text p
HasPrefix(u, p) ==
  \/ u = p
  \/ u = "DROPPED" /\ p = "DROP"

\* the upper-cased token u contains the text p
Contains(u, p) == HasPrefix(u, p)

\* \s of the regular expressions, and the characters str.strip() removes
IsSpace(t) == t \in {" ", "\n"}

NonWordTokens ==
  {";", " ", "\n", "(", ")", "*", ",", ".", "/", "'", "=", "!=", "<=", "--", "/*", "*/",
   "<fence>", "<fence>sql"}

\* the number of characters of each word token of the model
WordLenTable ==
  ("0" :> 1) @@ ("1" :> 1) @@ ("10" :> 2) @@ ("100" :> 3) @@
  ("15" :> 2) @@ ("2" :> 1) @@ ("20" :> 2) @@ ("5" :> 1) @@ ("AI" :> 2) @@
  ("ALTER" :> 5) @@ ("AND" :> 3) @@ ("API" :> 3) @@ ("AS" :> 2) @@ ("ASC" :> 3) @@
  ("AVG" :> 3) @@ ("BY" :> 2) @@ ("CANCELED" :> 8) @@ ("CASE" :> 4) @@ ("COUNT" :> 5) @@
  ("CREATE" :> 6) @@ ("DELETE" :> 6) @@ ("DESC" :> 4) @@ ("DISTINCT" :> 8) @@
  ("DROP" :> 4) @@ ("END" :> 3) @@ ("Error" :> 5) @@ ("FROM" :> 4) @@ ("GRANT" :> 5) @@
  ("GROUP" :> 5) @@ ("INSERT" :> 6) @@ ("IS" :> 2) @@ ("JOIN" :> 4) @@ ("LIMIT" :> 5) @@
  ("NOT" :> 3) @@ ("NULL" :> 4) @@ ("ON" :> 2) @@ ("ORDER" :> 5) @@ ("Query" :> 5) @@
  ("REVOKE" :> 6) @@ ("ROUND" :> 5) @@ ("SELECT" :> 6) @@ ("SUM" :> 3) @@
  ("Southwest" :> 9) @@ ("TABLE" :> 5) @@ ("THEN" :> 4) @@ ("TRUNCATE" :> 8) @@
  ("UNION" :> 5) @@ ("UPDATE" :> 6) @@ ("WHEN" :> 4) @@ ("WHERE" :> 5) @@ ("as" :> 2) @@
  ("avg_profit_ratio" :> 16) @@ ("avg_sales" :> 9) @@ ("avg_shipping_days" :> 17) @@
  ("c" :> 1) @@ ("category_name" :> 13) @@ ("customer_id" :> 11) @@ ("customers" :> 9) @@
  ("days_for_shipment_scheduled" :> 27) @@ ("days_for_shipping_real" :> 22) @@
  ("drop" :> 4) @@ ("dropped" :> 7) @@ ("first_name" :> 10) @@ ("last_name" :> 9) @@
  ("limit" :> 5) @@ ("message" :> 7) @@ ("not" :> 3) @@ ("o" :> 1) @@ ("oi" :> 2) @@
  ("on_time_orders" :> 14) @@ ("on_time_percentage" :> 18) @@ ("order_count" :> 11) @@
  ("order_country" :> 13) @@ ("order_id" :> 8) @@ ("order_items" :> 11) @@
  ("order_region" :> 12) @@ ("order_status" :> 12) @@ ("orders" :> 6) @@ ("p" :> 1) @@
  ("pattern" :> 7) @@ ("product_id" :> 10) @@ ("product_name" :> 12) @@
  ("product_price" :> 13) @@ ("products" :> 8) @@ ("profit_ratio" :> 12) @@
  ("recognized" :> 10) @@ ("sales" :> 5) @@ ("segment" :> 7) @@ ("select" :> 6) @@
  ("shipping_mode" :> 13) @@ ("total_customers" :> 15) @@ ("total_order_value" :> 17) @@
  ("total_orders" :> 12) @@ ("total_products" :> 14) @@ ("total_records" :> 13) @@
  ("total_sales" :> 11) @@ ("total_sales_amount" :> 18) @@ ("update" :> 6) @@
  ("xp_cmdshell" :> 11)

\* number of characters of a token
TokLen(t) ==
  CASE t \in DOMAIN WordLenTable -> WordLenTable[t]
    [] t \in {"--", "/*", "*/", "!=", "<="} -> 2
    [] t = "<fence>" -> 3
    [] t = "<fence>sql" -> 6
    [] OTHER -> 1

IsWord(t) == t \notin NonWordTokens

RECURSIVE TextLen(_)
\* len(sql): the characters of the tokens and the blanks between adjacent words
TextLen(q) ==
  IF q = <<>> THEN 0
  ELSE TokLen(q[1])
       + (IF Len(q) > 1 /\ IsWord(q[1]) /\ IsWord(q[2]) THEN 1 ELSE 0)
       + TextLen(Tail(q))

\* sql.count(t)
Count(q, t) == Cardinality({i \in 1..Len(q) : q[i] = t})

RECURSIVE LStrip(_)
LStrip(q) == IF q # <<>> /\ IsSpace(q[1]) THEN LStrip(Tail(q)) ELSE q

RECURSIVE RStrip(_)
RStrip(q) ==
  IF q # <<>> /\ IsSpace(q[Len(q)]) THEN RStrip(SubSeq(q, 1, Len(q) - 1)) ELSE q

\* str.strip()
Strip(q) == RStrip(LStrip(q))

(***************************************************************************)
(* The regular expressions of the two validators.                          *)
(***************************************************************************)
\* the keyword search without re.IGNORECASE; C1 must not survive it
ForbiddenMatchCaseSensitive(q) == \E i \in 1..Len(q) : q[i] \in Keywords

\* forbidden_patterns.search(sql): \b(DROP|...|REVOKE)\b, IGNORECASE
ForbiddenMatch(q) == \E i \in 1..Len(q) : Upper(q[i]) \in Keywords

\* r';\s*DROP' and r';\s*DELETE'
StackedMatch(q, kw) ==
  \E i \in 1..Len(q), j \in 1..Len(q) :
    /\ i < j
    /\ q[i] = ";"
    /\ \A k \in (i + 1)..(j - 1) : IsSpace(q[k])
    /\ HasPrefix(Upper(q[j]), kw)

\* r'UNION.*SELECT' ('.' matches no newline)
UnionSelectMatch(q) ==
  \E i \in 1..Len(q), j \in 1..Len(q) :
    /\ i < j
    /\ Contains(Upper(q[i]), "UNION")
    /\ Contains(Upper(q[j]), "SELECT")
    /\ \A k \in (i + 1)..(j - 1) : q[k] # "\n"

\* r'--.*\n'
LineCommentMatch(q) ==
  \E i \in 1..Len(q), j \in 1..Len(q) : i < j /\ q[i] = "--" /\ q[j] = "\n"

\* r'/\*.*\*/'
BlockCommentMatch(q) ==
  \E i \in 1..Len(q), j \in 1..Len(q) :
    /\ i < j
    /\ q[i] = "/*"
    /\ q[j] = "*/"
    /\ \A k \in (i + 1)..(j - 1) : q[k] # "\n"

\* r'xp_cmdshell'
XpCmdshellMatch(q) == \E i \in 1..Len(q) : Contains(Upper(q[i]), "XP_CMDSHELL")

injection_patterns ==
  << ";\\s*DROP", ";\\s*DELETE", "UNION.*SELECT", "--.*\\n", "/\\*.*\\*/", "xp_cmdshell" >>

\* re.search(injection_patterns[n], sql, re.IGNORECASE)
InjectionSearch(n, q) ==
  CASE n = 1 -> StackedMatch(q, "DROP")
    [] n = 2 -> StackedMatch(q, "DELETE")
    [] n = 3 -> UnionSelectMatch(q)
    [] n = 4 -> LineCommentMatch(q)
    [] n = 5 -> BlockCommentMatch(q)
    [] OTHER -> XpCmdshellMatch(q)

InjectionMessage(n) ==
  CASE n = 1 -> "Potential SQL injection pattern detected: ;\\s*DROP"
    [] n = 2 -> "Potential SQL injection pattern detected: ;\\s*DELETE"
    [] n = 3 -> "Potential SQL injection pattern detected: UNION.*SELECT"
    [] n = 4 -> "Potential SQL injection pattern detected: --.*\\n"
    [] n = 5 -> "Potential SQL injection pattern detected: /\\*.*\\*/"
    [] OTHER -> "Potential SQL injection pattern detected: xp_cmdshell"

InjectionMessages == {InjectionMessage(n) : n \in 1..Len(injection_patterns)}

RECURSIVE InjectionErrorsFrom(_, _)
InjectionErrorsFrom(n, q) ==
  IF n > Len(injection_patterns) THEN <<>>
  ELSE (IF InjectionSearch(n, q) THEN <<InjectionMessage(n)>> ELSE <<>>)
       \o InjectionErrorsFrom(n + 1, q)

\* the loop over injection_patterns
InjectionErrors(q) == InjectionErrorsFrom(1, q)

\* sql.strip().upper().startswith('SELECT')
StartsWithSelect(q) ==
  LET s == Strip(q) IN s # <<>> /\ HasPrefix(Upper(s[1]), "SELECT")

\* a parenthesis check that objects to every "("; C7 must not survive it
UnmatchedParensAnyOpen(q) == Count(q, "(") # 0

\* sql.count('(') != sql.count(')')
UnmatchedParens(q) == Count(q, "(") # Count(q, ")")

MsgForbidden == "Write operations are forbidden. Only SELECT queries allowed."
MsgNotSelect == "Query must start with SELECT"
MsgParens == "Unmatched parentheses in query"

Cond(b, s) == IF b THEN s ELSE <<>>

(***************************************************************************)
(* MultiLevelSQLValidator.validate_basic (primary).  Confidences are in    *)
(* hundredths.  An optional value is <<>> for None and <<x>> for x.        *)
(***************************************************************************)
BasicErrors(q) ==
  Cond(ForbiddenMatch(q), <<MsgForbidden>>)
  \o InjectionErrors(q)
  \o Cond(~StartsWithSelect(q), <<MsgNotSelect>>)
  \o Cond(UnmatchedParens(q), <<MsgParens>>)

validate_basic(q) ==
  LET errors == BasicErrors(q) IN
  [ is_valid |-> errors = <<>>,
    confidence |-> IF errors = <<>> THEN 80 ELSE 20,
    errors |-> errors,
    warnings |-> <<>>,
    suggested_fix |-> <<>>,
    cost_estimate |-> <<>> ]

(***************************************************************************)
(* SQLValidatorAgent.execute (fallback).                                   *)
(***************************************************************************)
\* 'SELECT *' in sql.upper()
SelectStarMatch(q) ==
  \E i \in 1..Len(q) :
    /\ i + 2 <= Len(q)
    /\ Upper(q[i]) = "SELECT"
    /\ q[i + 1] = " "
    /\ q[i + 2] = "*"

\* 'LIMIT' in sql.upper()
LimitPresent(q) == \E i \in 1..Len(q) : Contains(Upper(q[i]), "LIMIT")

LongQueryLen == 1000

MsgConsiderLimit == "Consider adding LIMIT clause for SELECT * queries"
MsgLong == "Query is very long, consider optimization"

AgentErrors(q) ==
  Cond(ForbiddenMatch(q), <<MsgForbidden>>)
  \o InjectionErrors(q)
  \o Cond(~StartsWithSelect(q), <<MsgNotSelect>>)

AgentWarnings(q) ==
  Cond(UnmatchedParens(q), <<MsgParens>>)
  \o Cond(SelectStarMatch(q) /\ ~LimitPresent(q), <<MsgConsiderLimit>>)
  \o Cond(TextLen(q) > LongQueryLen, <<MsgLong>>)

SQLValidatorAgent_execute(q) ==
  LET errors == AgentErrors(q) IN
  [ is_valid |-> errors = <<>>,
    confidence |-> IF errors = <<>> THEN 90 ELSE 20,
    errors |-> errors,
    warnings |-> AgentWarnings(q),
    suggested_fix |-> <<>> ]

(***************************************************************************)
(* The query templates of SQLGeneratorAgent.generate_sql_pattern_based.    *)
(***************************************************************************)
\* agentic_team_system.py line 207
TplTotalSalesAllOrders ==
  <<"SELECT", "ROUND", "(", "SUM", "(", "oi", ".", "sales", ")", ",", " ", "2", ")",
    " ", "AS", "total_sales_amount", "FROM", "order_items", "oi", "JOIN", "orders",
    "o", "ON", "oi", ".", "order_id", " ", "=", " ", "o", ".", "order_id", "WHERE",
    "o", ".", "order_status", " ", "!=", " ", "'", "CANCELED", "'">>

\* agentic_team_system.py line 210
TplTotalSalesSouthwest ==
  <<"SELECT", "ROUND", "(", "SUM", "(", "oi", ".", "sales", ")", ",", " ", "2", ")",
    " ", "AS", "total_sales_amount", "FROM", "order_items", "oi", "JOIN", "orders",
    "o", "ON", "oi", ".", "order_id", " ", "=", " ", "o", ".", "order_id", "WHERE",
    "o", ".", "order_region", " ", "=", " ", "'", "Southwest", "'", " ", "AND", "o",
    ".", "order_status", " ", "!=", " ", "'", "CANCELED", "'">>

\* agentic_team_system.py line 213
TplHighestProfitMargin ==
  <<"SELECT", "p", ".", "product_name", ",", " ", "p", ".", "product_price", ",", " ",
    "AVG", "(", "oi", ".", "profit_ratio", ")", " ", "as", "avg_profit_ratio", "FROM",
    "products", "p", "JOIN", "order_items", "oi", "ON", "p", ".", "product_id", " ",
    "=", " ", "oi", ".", "product_id", "WHERE", "oi", ".", "profit_ratio", "IS", "NOT",
    "NULL", "GROUP", "BY", "p", ".", "product_id", ",", " ", "p", ".", "product_name",
    ",", " ", "p", ".", "product_price", "ORDER", "BY", "avg_profit_ratio", "DESC",
    "LIMIT", "10">>

\* agentic_team_system.py line 216
TplTopCustomers ==
  <<"SELECT", "c", ".", "first_name", ",", " ", "c", ".", "last_name", ",", " ", "c",
    ".", "customer_id", ",", " ", "SUM", "(", "oi", ".", "sales", ")", " ", "as",
    "total_order_value", ",", " ", "COUNT", "(", "DISTINCT", "o", ".", "order_id", ")",
    " ", "as", "total_orders", "FROM", "customers", "c", "JOIN", "orders", "o", "ON",
    "c", ".", "customer_id", " ", "=", " ", "o", ".", "customer_id", "JOIN",
    "order_items", "oi", "ON", "o", ".", "order_id", " ", "=", " ", "oi", ".",
    "order_id", "WHERE", "oi", ".", "sales", "IS", "NOT", "NULL", "GROUP", "BY", "c",
    ".", "customer_id", ",", " ", "c", ".", "first_name", ",", " ", "c", ".",
    "last_name", "ORDER", "BY", "total_order_value", "DESC", "LIMIT", "10">>

\* agentic_team_system.py line 219
TplShippingMode ==
  <<"SELECT", "o", ".", "shipping_mode", ",", " ", "COUNT", "(", "*", ")", " ", "as",
    "total_orders", ",", " ", "COUNT", "(", "CASE", "WHEN", "o", ".",
    "days_for_shipping_real", " ", "<=", " ", "o", ".", "days_for_shipment_scheduled",
    "THEN", "1", "END", ")", " ", "as", "on_time_orders", ",", " ", "(", "COUNT", "(",
    "CASE", "WHEN", "o", ".", "days_for_shipping_real", " ", "<=", " ", "o", ".",
    "days_for_shipment_scheduled", "THEN", "1", "END", ")", " ", "*", " ", "100", ".",
    "0", " ", "/", " ", "COUNT", "(", "*", ")", ")", " ", "as", "on_time_percentage",
    "FROM", "orders", "o", "WHERE", "o", ".", "days_for_shipping_real", "IS", "NOT",
    "NULL", "AND", "o", ".", "days_for_shipment_scheduled", "IS", "NOT", "NULL",
    "GROUP", "BY", "o", ".", "shipping_mode", "ORDER", "BY", "on_time_percentage",
    "ASC", "LIMIT", "5">>

\* agentic_team_system.py line 222
TplAverageTime ==
  <<"SELECT", "o", ".", "order_country", ",", " ", "AVG", "(", "o", ".",
    "days_for_shipping_real", ")", " ", "as", "avg_shipping_days", ",", " ", "COUNT",
    "(", "*", ")", " ", "as", "order_count", "FROM", "orders", "o", "WHERE", "o", ".",
    "days_for_shipping_real", "IS", "NOT", "NULL", "GROUP", "BY", "o", ".",
    "order_country", "ORDER", "BY", "avg_shipping_days", "DESC", "LIMIT", "15">>

\* agentic_team_system.py line 225
TplDistribution ==
  <<"SELECT", "c", ".", "segment", ",", " ", "o", ".", "order_region", ",", " ",
    "COUNT", "(", "*", ")", " ", "as", "order_count", ",", " ", "SUM", "(", "oi", ".",
    "sales", ")", " ", "as", "total_sales", "FROM", "orders", "o", "JOIN", "customers",
    "c", "ON", "o", ".", "customer_id", " ", "=", " ", "c", ".", "customer_id", "JOIN",
    "order_items", "oi", "ON", "o", ".", "order_id", " ", "=", " ", "oi", ".",
    "order_id", "WHERE", "oi", ".", "sales", "IS", "NOT", "NULL", "GROUP", "BY", "c",
    ".", "segment", ",", " ", "o", ".", "order_region", "ORDER", "BY", "order_count",
    "DESC", "LIMIT", "20">>

\* agentic_team_system.py line 228
TplDecliningSales ==
  <<"SELECT", "p", ".", "category_name", ",", " ", "SUM", "(", "oi", ".", "sales", ")",
    " ", "as", "total_sales", ",", " ", "COUNT", "(", "*", ")", " ", "as",
    "order_count", ",", " ", "AVG", "(", "oi", ".", "sales", ")", " ", "as",
    "avg_sales", "FROM", "products", "p", "JOIN", "order_items", "oi", "ON", "p", ".",
    "product_id", " ", "=", " ", "oi", ".", "product_id", "WHERE", "oi", ".", "sales",
    "IS", "NOT", "NULL", "GROUP", "BY", "p", ".", "category_name", "ORDER", "BY",
    "total_sales", "ASC", "LIMIT", "10">>

\* agentic_team_system.py line 233
TplCountCustomers ==
  <<"SELECT", "COUNT", "(", "*", ")", " ", "as", "total_customers", "FROM",
    "customers">>

\* agentic_team_system.py line 235
TplCountProducts ==
  <<"SELECT", "COUNT", "(", "*", ")", " ", "as", "total_products", "FROM", "products">>

\* agentic_team_system.py line 237
TplCountOrders ==
  <<"SELECT", "COUNT", "(", "*", ")", " ", "as", "total_orders", "FROM", "orders">>

\* agentic_team_system.py line 239
TplSumSales ==
  <<"SELECT", "SUM", "(", "sales", ")", " ", "as", "total_sales", "FROM",
    "order_items">>

\* agentic_team_system.py line 241
TplNotRecognized ==
  <<"SELECT", " ", "'", "Query", "pattern", "not", "recognized", "'", " ", "as",
    "message", ",", " ", "COUNT", "(", "*", ")", " ", "as", "total_records", "FROM",
    "customers">>

(***************************************************************************)
(* Query texts used as inputs.                                             *)
(***************************************************************************)
SelectCustomers == <<"SELECT", "customers">>

UnionQuery == <<"SELECT", "customers", "UNION", "SELECT", "orders">>

\* "SELECT * FROM customers; DROP TABLE customers;"
ScenarioC ==
  <<"SELECT", " ", "*", " ", "FROM", "customers", ";", " ", "DROP", "TABLE", "customers", ";">>

\* "SELECT * FROM customers; SELECT * FROM orders"
StackedSelect ==
  <<"SELECT", " ", "*", " ", "FROM", "customers", ";", " ", "SELECT", " ", "*", " ",
    "FROM", "orders">>

\* "SELECT customers /* orders */"
CommentedSelect == <<"SELECT", "customers", " ", "/*", "orders", "*/">>

(***************************************************************************)
(* Python dicts are records; d.get(k, default).                            *)
(***************************************************************************)
Get(d, k, default) == IF k \in DOMAIN d THEN d[k] ELSE default

Min(a, b) == IF a <= b THEN a ELSE b

(***************************************************************************)
(* The model-invocation service (SynGenAIClient.call_model).  It never     *)
(* raises: a failed call returns an error text.  Its answers are drawn     *)
(* from small sets.                                                        *)
(***************************************************************************)
\* "AI API Error: 500" / "AI service unavailable: ..." read as a query text
ApiErrorText == <<"AI", "API", "Error">>

\* answers to the review prompt of validate_with_ai
ReviewResponses ==
  [kind : {"json"}, is_safe : BOOLEAN, is_correct : {TRUE},
   issues : {"empty", "some"}, confidence : {90}]
  \cup { [kind |-> "json", is_safe |-> TRUE, is_correct |-> FALSE,
          issues |-> "null", confidence |-> 30],
         [kind |-> "badjson"],
         [kind |-> "text", unsafe |-> TRUE, incorrect |-> FALSE],
         [kind |-> "text", unsafe |-> FALSE, incorrect |-> TRUE],
         [kind |-> "error_text"] }

MsgAiIssue == "issue reported by the model"
MsgAiUnsafe == "AI detected potential security issues"
MsgAiIncorrect == "AI detected correctness issues"
MsgAiFormat == "AI analysis completed with non-standard format"
MsgAiError == "AI validation error: json"

\* MultiLevelSQLValidator.validate_with_ai, given the service's answer.
\* errors_null: the answer's "issues" is null, so errors is None, not a list.
validate_with_ai(resp) ==
  CASE resp.kind = "json" ->
         [ is_valid |-> resp.is_safe /\ resp.is_correct,
           confidence |-> resp.confidence,
           errors |-> IF resp.issues = "some" THEN <<MsgAiIssue>> ELSE <<>>,
           errors_null |-> resp.issues = "null",
           warnings |-> <<>>,
           suggested_fix |-> <<>>,
           cost_estimate |-> <<50>> ]
    [] resp.kind = "badjson" ->
         [ is_valid |-> FALSE, confidence |-> 0, errors |-> <<MsgAiError>>,
           errors_null |-> FALSE, warnings |-> <<>>, suggested_fix |-> <<>>,
           cost_estimate |-> <<>> ]
    [] resp.kind = "text" ->
         LET errors == Cond(resp.unsafe, <<MsgAiUnsafe>>)
                       \o Cond(resp.incorrect, <<MsgAiIncorrect>>) IN
         [ is_valid |-> errors = <<>>, confidence |-> 60, errors |-> errors,
           errors_null |-> FALSE, warnings |-> <<MsgAiFormat>>, suggested_fix |-> <<>>,
           cost_estimate |-> <<>> ]
    [] OTHER ->
         \* the error text of a failed call names neither word list
         [ is_valid |-> TRUE, confidence |-> 60, errors |-> <<>>,
           errors_null |-> FALSE, warnings |-> <<MsgAiFormat>>, suggested_fix |-> <<>>,
           cost_estimate |-> <<>> ]

\* re.sub(r'^```sql\s*', '', text.strip())
StripOpeningFence(q) ==
  LET s == Strip(q) IN
  IF s # <<>> /\ s[1] = "<fence>sql" THEN LStrip(Tail(s)) ELSE s

\* re.sub(r'\s*```$', '', text.strip())
StripClosingFence(q) ==
  LET s == Strip(q) IN
  IF s # <<>> /\ s[Len(s)] = "<fence>" THEN RStrip(SubSeq(s, 1, Len(s) - 1)) ELSE s

\* the clean-up of a model answer in validate_with_critique
CleanFences(q) == StripClosingFence(StripOpeningFence(q))

RECURSIVE RStripSemicolons(_)
\* str.rstrip(';')
RStripSemicolons(q) ==
  IF q # <<>> /\ q[Len(q)] = ";" THEN RStripSemicolons(SubSeq(q, 1, Len(q) - 1)) ELSE q

\* the clean-up of a model answer in SmartSQLGenerator.generate_sql
CleanGenerated(q) == RStripSemicolons(Strip(CleanFences(q)))

CountAllCustomers == <<"SELECT", "COUNT", "(", "*", ")", "FROM", "customers">>

FencedCount ==
  <<"<fence>sql", "\n", "SELECT", "COUNT", "(", "*", ")", "FROM", "customers", "\n", "<fence>">>

\* a read-only query that names a column "update"
KeywordColumn == <<"SELECT", "update", "FROM", "customers">>

\* the texts the service answers to a generation or rewrite prompt
SqlResponses ==
  { CountAllCustomers, FencedCount, KeywordColumn, ScenarioC, StackedSelect,
    ApiErrorText, <<>> }

(***************************************************************************)
(* Questions.  A question is its text and the set of the phrases, among    *)
(* those the classifiers, the pattern generator and the retriever look     *)
(* for, that occur in its lower-cased text.                                *)
(***************************************************************************)
QSales ==
  [ text |-> "What is the total sales amount for all orders?",
    phrases |-> {"total", "total sales amount", "sales amount", "sales", "all orders",
                 "orders", "order"} ]

QPolicy ==
  [ text |-> "What is our policy on slow-moving inventory?",
    phrases |-> {"policy", "inventory"} ]

QHybrid ==
  [ text |-> "Which customers qualify as premium according to our policy?",
    phrases |-> {"customers", "customer", "qualify as", "according to",
                 "according to our policy", "policy"} ]

QHello == [ text |-> "Hello there", phrases |-> {} ]

Questions == {QSales, QPolicy, QHybrid, QHello}

\* phrase in question_lower
In(phrase, question) == phrase \in question.phrases

\* sum(1 for indicator in indicators if indicator in question_lower)
Score(indicators, question) == Cardinality(indicators \cap question.phrases)

(***************************************************************************)
(* IntentClassifier.classify_intent (primary), given the service's answer. *)
(***************************************************************************)
ClassifyResponses ==
  [kind : {"json"}, category : {"SQL", "DOCUMENT", "HYBRID", "UNKNOWN"}]
  \cup [kind : {"badjson", "text"}]

classifier_sql_indicators == {"total", "sum", "count", "average", "how many", "list all"}

classifier_doc_indicators == {"policy", "procedure", "definition", "requirements", "steps"}

classify_intent(resp, question) ==
  CASE resp.kind = "json" /\ resp.category = "SQL" -> "sql"
    [] resp.kind = "json" /\ resp.category = "DOCUMENT" -> "document"
    [] resp.kind = "json" /\ resp.category = "HYBRID" -> "hybrid"
    [] resp.kind = "text" ->
         LET sql_score == Score(classifier_sql_indicators, question)
             doc_score == Score(classifier_doc_indicators, question) IN
         IF sql_score > doc_score THEN "sql" ELSE "document"
    [] OTHER -> "document"   \* QueryType(...) or json.loads raised

\* json.loads, QueryType(...) or float(...) raises inside the try
classify_raises(resp) ==
  resp.kind = "badjson" \/ (resp.kind = "json" /\ resp.category = "UNKNOWN")

\* the confidence classify_intent returns with the intent; the service's
\* JSON answers state 0.9
classify_confidence(resp, question) ==
  CASE classify_raises(resp) -> 50
    [] resp.kind = "json" -> 90
    [] OTHER ->
         LET sql_score == Score(classifier_sql_indicators, question)
             doc_score == Score(classifier_doc_indicators, question) IN
         IF sql_score > doc_score \/ doc_score > 0 THEN 70 ELSE 50

(***************************************************************************)
(* RouterAgent.execute (fallback).                                         *)
(***************************************************************************)
sql_indicators ==
  {"total", "sum", "count", "average", "how many", "list all", "show me", "top",
   "highest", "lowest", "distribution", "calculate", "compare", "sales amount",
   "customers", "products", "orders", "profit margin"}

doc_indicators ==
  {"policy", "procedure", "definition", "requirements", "steps", "compliance",
   "according to", "standards", "framework", "code of conduct", "practices",
   "measures must be implemented", "criteria", "handle claims"}

hybrid_indicators ==
  {"based on our", "according to our policy", "meet our requirements", "qualify as",
   "exceed our thresholds", "comply with our"}

\* a router that looks at the SQL family before the hybrid family; C12 must
\* not survive it
RouterAgentSqlFirst(question) ==
  LET sql_score == Score(sql_indicators, question)
      doc_score == Score(doc_indicators, question)
      hybrid_score == Score(hybrid_indicators, question)
      intent == CASE sql_score > doc_score -> "sql"
                  [] hybrid_score > 0 -> "hybrid"
                  [] OTHER -> "document" IN
  [ success |-> TRUE,
    intent |-> intent,
    confidence |-> Min(70 + sql_score * 5, 95),
    metadata |-> [sql_score |-> sql_score, doc_score |-> doc_score,
                  hybrid_score |-> hybrid_score] ]

RouterAgent_execute(question) ==
  LET sql_score == Score(sql_indicators, question)
      doc_score == Score(doc_indicators, question)
      hybrid_score == Score(hybrid_indicators, question)
      intent == CASE hybrid_score > 0 -> "hybrid"
                  [] sql_score > doc_score -> "sql"
                  [] OTHER -> "document"
      confidence == CASE hybrid_score > 0 -> 80 + hybrid_score * 5
                      [] sql_score > doc_score -> 70 + sql_score * 5
                      [] doc_score > 0 -> 70 + doc_score * 5
                      [] OTHER -> 50 IN
  [ success |-> TRUE,
    intent |-> intent,
    confidence |-> Min(confidence, 95),
    metadata |-> [sql_score |-> sql_score, doc_score |-> doc_score,
                  hybrid_score |-> hybrid_score] ]

(***************************************************************************)
(* SQLGeneratorAgent.generate_sql_pattern_based (fallback).                *)
(***************************************************************************)
generate_sql_pattern_based(question) ==
  CASE In("total sales amount", question) /\ In("all orders", question) ->
         TplTotalSalesAllOrders
    [] In("total sales amount", question) /\ In("southwest", question) ->
         TplTotalSalesSouthwest
    [] In("highest profit margin", question) /\ In("products", question) ->
         TplHighestProfitMargin
    [] In("top", question) /\ In("customers", question) /\ In("order value", question) ->
         TplTopCustomers
    [] In("shipping mode", question) /\ In("lowest", question) /\ In("on-time", question) ->
         TplShippingMode
    [] In("average time", question) /\ In("order date", question)
         /\ In("shipping date", question) ->
         TplAverageTime
    [] In("distribution", question) /\ In("orders", question)
         /\ In("customer segment", question) ->
         TplDistribution
    [] In("product categories", question) /\ In("declining sales", question) ->
         TplDecliningSales
    [] In("customer", question) -> TplCountCustomers
    [] In("product", question) -> TplCountProducts
    [] In("order", question) -> TplCountOrders
    [] In("sales", question) -> TplSumSales
    [] OTHER -> TplNotRecognized

(***************************************************************************)
(* The documents the policy store returns and the texts the service        *)
(* answers to the answer and synthesis prompts.                            *)
(***************************************************************************)
\* MongoDBManager.search_documents yields the keys id, title, content, relevance_score
DocInventory ==
  [id |-> "d1", title |-> "Inventory Management", content |-> "inventory text",
   relevance_score |-> 12]

DocReturns ==
  [id |-> "d2", title |-> "Returns and Reverse Logistics", content |-> "returns text",
   relevance_score |-> 7]

DocSuppliers ==
  [id |-> "d3", title |-> "Supplier Qualification", content |-> "supplier text",
   relevance_score |-> 3]

\* the documents of the policy store, by text score of a search term
DocsByScore == <<DocInventory, DocReturns, DocSuppliers>>

\* what search_documents returns for one term: some of the documents,
\* each once, by descending score
TermResults ==
  {SelectSeq(DocsByScore, LAMBDA d : d \in hits) :
     hits \in SUBSET {DocsByScore[i] : i \in 1 .. Len(DocsByScore)}}

\* what the searches of one request yield in all: an exception or the hits
SearchOutcomes ==
  { [kind |-> "raise"],
    [kind |-> "hits", docs |-> <<>>],
    [kind |-> "hits", docs |-> <<DocInventory>>],
    [kind |-> "hits", docs |-> <<DocInventory, DocReturns>>] }

PolicyAnswer == <<" ", "Slow-moving", "inventory", "is", "reviewed", "quarterly", "\n">>

AnswerResponses == { PolicyAnswer, <<>>, ApiErrorText }

\* the service's answers to the synthesis prompt: a text that quotes the
\* policy answer it was shown, an empty text, an error text
SynthResponses == {"quote", "empty", "error_text"}

SynthesisText(kind, doc_result) ==
  CASE kind = "quote" -> <<"In", "summary">> \o Get(doc_result, "answer", <<>>)
    [] kind = "empty" -> <<>>
    [] OTHER -> ApiErrorText

\* str(e) of the exception the relational store's driver raises
StoreErrorText == "canceling statement due to statement timeout"

\* what the relational store does with a query: rows that json can encode,
\* rows with Decimal or datetime values, or an error
StoreOutcomes ==
  { [kind |-> "rows", serialisable |-> TRUE],
    [kind |-> "rows", serialisable |-> FALSE],
    [kind |-> "raise", text |-> StoreErrorText] }

(***************************************************************************)
(* Bounds of the behaviours.                                               *)
(***************************************************************************)
MaxAttempts == 2

MaxRequests == 2

MaxTicks == 3

MaxSchemaVersion == 2

MaxSchemaChanges == 2

(***************************************************************************)
(* Program constants.                                                      *)
(***************************************************************************)
\* cache_ttl of SmartSQLGenerator.get_schema_info, in seconds
cache_ttl == 600

\* top_k of EnhancedRAGSystem.semantic_search
top_k == 5

ValidationLevels == {"basic", "moderate", "strict", "paranoid"}

\* the name query_service of main_app is unbound when the constructor raised
Unbound == [unbound |-> TRUE]

\* a dict or verdict not produced yet
NoResult == [type |-> "none"]

NoVerdict == [unset |-> TRUE]

\* the concurrent callers of get_schema_info
Callers == {"a", "b"}

\* the clock advances by one of these numbers of seconds
TickSteps == {1, 599}

\* the values get_schema_info hands out: a snapshot of the store schema ...
Snapshot(version) == [schema |-> version]

\* ... or the text "Schema information unavailable"
SchemaUnavailable == [unavailable |-> TRUE]

\* Python None
None == [none |-> TRUE]

\* the table names the relational store may hold, in the order of ORDER BY
TableOrder == <<"customers", "orders", "returns">>

TableNames == {TableOrder[i] : i \in 1 .. Len(TableOrder)}

\* a row of _fetch_relationships
ForeignKey(t, r) == [table |-> t, referenced_table |-> r]

(***************************************************************************)
(* State.                                                                  *)
(***************************************************************************)
VARIABLES
  cand,            \* a candidate query handed to the validators
  appended,        \* number of tokens appended to the stem of cand
  basic_verdict,   \* validate_basic(cand)
  agent_verdict,   \* SQLValidatorAgent.execute on cand
  query_service,   \* main_app.query_service: Unbound or the service's configuration
  agentic_system,  \* main_app.agentic_system is not None
  system_stats,    \* AgenticTeamSystem.system_stats
  schema_cache,    \* SmartSQLGenerator.schema_cache
  schema_cache_time, \* SmartSQLGenerator.schema_cache_time
  now,             \* time.time()
  ticks,           \* number of clock advances so far
  store_schema,    \* the schema the relational store would report now
  caller_pc,       \* position of each concurrent caller of get_schema_info
  caller_time,     \* current_time of each caller
  caller_result,   \* what get_schema_info returned to each caller
  caller_fetched,  \* whether the call issued a fetch to the store
  pc,              \* position of unified_query
  question,
  served_by,       \* which pipeline produced the response
  outcome,         \* the response
  query_type,      \* the intent the question was classified as
  intent_confidence, \* the confidence of the classification, in hundredths
  sql_pc,          \* position of the SQL task
  sql,             \* the generated query
  current_sql,     \* validate_with_critique: current_sql
  attempt,         \* validate_with_critique: attempt
  iterations,      \* number of loop bodies validate_with_critique entered
  all_errors,      \* validate_with_critique: <<>> while unbound
  all_warnings,
  validation_result,
  final_sql,
  sql_result,
  store_log,       \* the queries sent to the relational store in this request
  doc_pc,          \* position of the document task
  documents,
  doc_result,
  review,          \* the answer of the model service to the last review prompt
  found_docs,      \* semantic_search: all_docs, the hits of the searches
  faults,          \* exceptions raised inside the primary pipeline in this request
  db_tables,       \* the tables of the relational store
  db_fks,          \* the foreign-key constraints of the relational store
  schema_changes,  \* number of tables created or dropped so far
  redis_schema,    \* the value Redis holds under SCHEMA_KEY
  load_pc,         \* position of a call of SchemaService.load_schema
  load_result,     \* what load_schema returned
  schema_pc,       \* position of _fetch_schema
  table_rows,      \* _fetch_schema: table_rows not looked at yet
  tables,          \* _fetch_schema: the keys of tables
  rel_pc,          \* position of _fetch_relationships
  relationships,   \* _fetch_relationships: relationships
  stats_pc,        \* position of _fetch_table_stats
  table_stats      \* _fetch_table_stats: the keys of stats

vvars == <<cand, appended, basic_verdict, agent_verdict>>
appvars == <<query_service, agentic_system>>
cachevars == <<schema_cache, schema_cache_time>>
clockvars == <<now, ticks>>
callervars == <<caller_pc, caller_time, caller_result, caller_fetched>>
reqvars == <<pc, question, served_by, outcome, query_type, intent_confidence>>
critvars == <<current_sql, attempt, iterations, all_errors, all_warnings>>
sqlvars == <<sql_pc, sql, critvars, validation_result, final_sql, sql_result, store_log>>
docvars == <<doc_pc, documents, doc_result>>
storevars == <<db_tables, db_fks, schema_changes>>
loadvars_call ==
  <<load_pc, load_result, schema_pc, table_rows, tables, rel_pc, relationships,
    stats_pc, table_stats>>
loadvars == <<storevars, redis_schema, loadvars_call>>
searchvars == <<found_docs>>
reviewvars == <<review>>
vars ==
  <<vvars, appvars, system_stats, cachevars, clockvars, store_schema, callervars,
    reqvars, sqlvars, docvars, faults, loadvars, searchvars, reviewvars>>

(***************************************************************************)
(* Initial states.                                                         *)
(***************************************************************************)
ValidatorIdle ==
  /\ cand = <<>>
  /\ appended = 0
  /\ basic_verdict = validate_basic(<<>>)
  /\ agent_verdict = SQLValidatorAgent_execute(<<>>)

CallersIdle ==
  /\ caller_pc = [c \in Callers |-> "idle"]
  /\ caller_time = [c \in Callers |-> 0]
  /\ caller_result = [c \in Callers |-> None]
  /\ caller_fetched = [c \in Callers |-> FALSE]

\* SmartSQLGenerator.__init__ and the clock
CacheInit ==
  /\ schema_cache = None
  /\ schema_cache_time = 0
  /\ now = 1000   \* time.time() is far beyond cache_ttl
  /\ ticks = 0
  /\ store_schema = 1

RequestIdle ==
  /\ pc = "idle"
  /\ question = QHello
  /\ served_by = "none"
  /\ outcome = NoResult
  /\ query_type = "none"
  /\ intent_confidence = 0
  /\ sql_pc = "off"
  /\ sql = <<>>
  /\ current_sql = <<>>
  /\ attempt = 0
  /\ iterations = 0
  /\ all_errors = <<>>
  /\ all_warnings = <<>>
  /\ validation_result = NoVerdict
  /\ final_sql = <<>>
  /\ sql_result = NoResult
  /\ store_log = <<>>
  /\ doc_pc = "off"
  /\ documents = <<>>
  /\ doc_result = NoResult
  /\ faults = {}

\* no search has run
SearchIdle == found_docs = <<>>

\* no review has been asked for
NoReview == [kind |-> "none"]

ReviewIdle == review = NoReview

\* the store's catalogue at the start: orders references customers
LoadIdle ==
  /\ db_tables = {"customers", "orders"}
  /\ db_fks = {ForeignKey("orders", "customers")}
  /\ schema_changes = 0
  /\ redis_schema = None
  /\ load_pc = "idle"
  /\ load_result = None
  /\ schema_pc = "off"
  /\ table_rows = <<>>
  /\ tables = {}
  /\ rel_pc = "off"
  /\ relationships = {}
  /\ stats_pc = "off"
  /\ table_stats = {}

\* AgenticTeamSystem.__init__
StatsInit ==
  system_stats = [total_queries |-> 0, successful_queries |-> 0, sql_queries |-> 0,
                  rag_queries |-> 0, hybrid_queries |-> 0]

\* the configurations of the service the behaviours start from
ServiceConfigs ==
  {[validation_level |-> l, max_fix_attempts |-> MaxAttempts] : l \in {"basic", "moderate"}}
  \cup {[validation_level |-> "strict", max_fix_attempts |-> n] : n \in 0 .. MaxAttempts}
  \cup {[validation_level |-> "paranoid", max_fix_attempts |-> 1]}

\* main_app: UnifiedQueryService() reads DEFAULT_VALIDATION_LEVEL and
\* MAX_FIX_ATTEMPTS and raises on a value it cannot convert;
\* create_agentic_system() may raise as well
Init ==
  /\ ValidatorIdle
  /\ CallersIdle
  /\ CacheInit
  /\ RequestIdle
  /\ StatsInit
  /\ LoadIdle
  /\ SearchIdle
  /\ ReviewIdle
  /\ \/ query_service \in ServiceConfigs /\ agentic_system = TRUE
     \/ query_service = Unbound /\ agentic_system \in BOOLEAN

(***************************************************************************)
(* SmartSQLGenerator.get_schema_info.                                      *)
(***************************************************************************)
\* a freshness test that still serves the snapshot at the age cache_ttl; C8
\* must not survive it
CacheFreshInclusive(cache, cache_time, current_time) ==
  cache # None /\ (current_time - cache_time) <= cache_ttl

\* self.schema_cache and (current_time - self.schema_cache_time) < cache_ttl
CacheFresh(cache, cache_time, current_time) ==
  cache # None /\ (current_time - cache_time) < cache_ttl

\* the whole call, run without interleaving: new cache, new cache time, result
GetSchemaInfo(fetch_ok) ==
  IF CacheFresh(schema_cache, schema_cache_time, now)
    THEN [cache |-> schema_cache, time |-> schema_cache_time, result |-> schema_cache]
    ELSE IF fetch_ok
      THEN [cache |-> Snapshot(store_schema), time |-> now,
            result |-> Snapshot(store_schema)]
      ELSE [cache |-> schema_cache, time |-> schema_cache_time,
            result |-> SchemaUnavailable]

(***************************************************************************)
(* main_app.unified_query and the primary pipeline (UnifiedQueryService).  *)
(***************************************************************************)
StartTasks(type) ==
  /\ sql_pc' = IF type \in {"sql", "hybrid"} THEN "generate" ELSE "off"
  /\ doc_pc' = IF type \in {"document", "hybrid"} THEN "search" ELSE "off"

\* a handler that hands every question to the fallback pipeline without
\* an attempt of the primary
ReceiveFallbackFirst(q) ==
  /\ pc = "idle"
  /\ system_stats.total_queries < MaxRequests
  /\ question' = q
  /\ IF agentic_system
       THEN pc' = "fallback_route" /\ UNCHANGED <<faults, served_by, outcome>>
       ELSE /\ pc' = "done"
            /\ faults' = {"NameError"}
            /\ served_by' = "http500"
            /\ outcome' = [type |-> "http_error", status |-> 500]
  /\ UNCHANGED <<reviewvars, searchvars, loadvars, vvars, appvars, system_stats, cachevars, clockvars, store_schema,
                 callervars, query_type, intent_confidence, sqlvars, docvars>>

\* unified_query up to the call of the primary pipeline
Receive(q) ==
  /\ pc = "idle"
  /\ system_stats.total_queries < MaxRequests
  /\ question' = q
  /\ IF query_service = Unbound
       THEN \* NameError, caught by the handler
            /\ faults' = {"NameError"}
            /\ IF agentic_system
                 THEN pc' = "fallback_route" /\ UNCHANGED <<served_by, outcome>>
                 ELSE /\ pc' = "done"
                      /\ served_by' = "http500"
                      /\ outcome' = [type |-> "http_error", status |-> 500]
       ELSE /\ pc' = "classify"
            /\ UNCHANGED <<faults, served_by, outcome>>
  /\ UNCHANGED <<reviewvars, searchvars, loadvars, vvars, appvars, system_stats, cachevars, clockvars, store_schema,
                 callervars, query_type, intent_confidence, sqlvars, docvars>>

\* process_query: classification and routing
P_Classify ==
  /\ pc = "classify"
  /\ \E resp \in ClassifyResponses :
       LET type == classify_intent(resp, question) IN
       /\ query_type' = type
       /\ intent_confidence' = classify_confidence(resp, question)
       /\ faults' = IF classify_raises(resp) THEN faults \cup {"ValueError"} ELSE faults
       /\ StartTasks(type)
  /\ pc' = "primary"
  /\ UNCHANGED <<reviewvars, searchvars, loadvars, vvars, appvars, system_stats, cachevars, clockvars, store_schema,
                 callervars, question, served_by, outcome, sql, critvars,
                 validation_result, final_sql, sql_result, store_log, documents,
                 doc_result>>

\* SmartSQLGenerator.generate_sql
P_Generate ==
  /\ pc = "primary"
  /\ sql_pc = "generate"
  /\ \E fetch_ok \in BOOLEAN :
       LET r == GetSchemaInfo(fetch_ok) IN
       /\ schema_cache' = r.cache
       /\ schema_cache_time' = r.time
  /\ \E resp \in SqlResponses :
       /\ sql' = CleanGenerated(resp)
       /\ current_sql' = CleanGenerated(resp)
  /\ sql_pc' = "validate"
  /\ UNCHANGED <<reviewvars, searchvars, loadvars, vvars, appvars, system_stats, clockvars, store_schema, callervars,
                 reqvars, attempt, iterations, all_errors, all_warnings,
                 validation_result, final_sql, sql_result, store_log, docvars, faults>>

\* the dict process_sql_query returns for an invalid verdict
ValidationFailure(v, level) ==
  [ error |-> "Query validation failed",
    issues |-> v.errors,
    issues_is_none |-> Get(v, "errors_null", FALSE),
    warnings |-> v.warnings,
    suggested_fix |-> v.suggested_fix,
    original_sql |-> sql,
    type |-> "sql_query",
    validation_level |-> level ]

\* the dict process_sql_query returns from its except clause
SqlProcessingFailed == [error |-> "SQL processing failed", type |-> "sql_query"]

\* process_sql_query without its test of is_valid; C2 must not survive it
ConcludeAlwaysExecutes(v, q) ==
  /\ validation_result' = v
  /\ final_sql' = q
  /\ sql_pc' = "execute"
  /\ UNCHANGED sql_result

\* process_sql_query after the verdict v on the query q is known
Conclude(v, q) ==
  /\ validation_result' = v
  /\ final_sql' = q
  /\ IF v.is_valid
       THEN sql_pc' = "execute" /\ UNCHANGED sql_result
       ELSE /\ sql_pc' = "done"
            /\ sql_result' = ValidationFailure(v, query_service.validation_level)

\* process_sql_query at the levels BASIC and MODERATE
P_Validate ==
  /\ pc = "primary"
  /\ sql_pc = "validate"
  /\ query_service.validation_level \in {"basic", "moderate"}
  /\ LET basic_result == validate_basic(sql) IN
     IF query_service.validation_level = "moderate" /\ basic_result.is_valid
       THEN \E resp \in ReviewResponses :
              /\ review' = resp
              /\ Conclude(validate_with_ai(resp), sql)
       ELSE Conclude(basic_result, sql) /\ UNCHANGED review
  /\ UNCHANGED <<searchvars, loadvars, vvars, appvars, system_stats, cachevars, clockvars, store_schema,
                 callervars, reqvars, sql, critvars, store_log, docvars,
                 faults>>

MsgFailedToFix == "Failed to fix after max_attempts attempts"

\* the verdict validate_with_critique returns below its loop
CritiqueFailed(errors, warnings) ==
  [ is_valid |-> FALSE,
    confidence |-> 30,
    errors |-> errors,
    warnings |-> warnings \o <<MsgFailedToFix>>,
    suggested_fix |-> IF current_sql # sql THEN <<current_sql>> ELSE <<>>,
    cost_estimate |-> <<>> ]

\* an exception leaves validate_with_critique; process_sql_query catches it
CritiqueRaises(exception) ==
  /\ faults' = faults \cup {exception}
  /\ sql_pc' = "done"
  /\ sql_result' = SqlProcessingFailed
  /\ UNCHANGED <<validation_result, final_sql>>

\* one pass through the body of the loop of validate_with_critique
P_CritiqueIteration ==
  /\ pc = "primary"
  /\ sql_pc = "validate"
  /\ query_service.validation_level \in {"strict", "paranoid"}
  /\ attempt < query_service.max_fix_attempts
  /\ iterations' = iterations + 1
  /\ \E resp \in ReviewResponses :
       LET basic_result == validate_basic(current_sql)
           ai_result == validate_with_ai(resp)
           errors == basic_result.errors \o ai_result.errors
           warnings == basic_result.warnings \o ai_result.warnings IN
       /\ review' = resp
       /\ IF ai_result.errors_null
         THEN \* list + None
              /\ CritiqueRaises("TypeError")
              /\ UNCHANGED <<current_sql, attempt, all_errors, all_warnings>>
         ELSE
           /\ all_errors' = <<errors>>
           /\ all_warnings' = <<warnings>>
           /\ IF errors = <<>>
                THEN /\ Conclude([ is_valid |-> TRUE,
                                   confidence |-> Min(basic_result.confidence,
                                                      ai_result.confidence),
                                   errors |-> <<>>,
                                   warnings |-> warnings,
                                   suggested_fix |-> <<>>,
                                   cost_estimate |-> ai_result.cost_estimate ],
                                 current_sql)
                     /\ UNCHANGED <<current_sql, attempt, faults>>
                ELSE \E fix \in SqlResponses :
                       LET fixed_sql == CleanFences(fix) IN
                       IF fixed_sql # <<>> /\ fixed_sql # current_sql
                         THEN /\ current_sql' = fixed_sql
                              /\ attempt' = attempt + 1
                              /\ UNCHANGED <<sql_pc, validation_result, final_sql,
                                             sql_result, faults>>
                         ELSE \* break
                              /\ Conclude(CritiqueFailed(errors, warnings), current_sql)
                              /\ UNCHANGED <<current_sql, attempt, faults>>
  /\ UNCHANGED <<searchvars, loadvars, vvars, appvars, system_stats, cachevars, clockvars, store_schema,
                 callervars, reqvars, sql, store_log, docvars>>

\* the loop condition of validate_with_critique is false
P_CritiqueExhausted ==
  /\ pc = "primary"
  /\ sql_pc = "validate"
  /\ query_service.validation_level \in {"strict", "paranoid"}
  /\ ~(attempt < query_service.max_fix_attempts)
  /\ IF all_errors = <<>>
       THEN \* the loop body never ran: all_errors is unbound
            CritiqueRaises("UnboundLocalError")
       ELSE /\ Conclude(CritiqueFailed(all_errors[1], all_warnings[1]), current_sql)
            /\ UNCHANGED faults
  /\ UNCHANGED <<reviewvars, searchvars, loadvars, vvars, appvars, system_stats, cachevars, clockvars, store_schema,
                 callervars, reqvars, sql, critvars, store_log, docvars>>

\* execute_sql_safely(sql) against the store's answer
execute_sql_safely(q, store) ==
  IF store.kind = "rows"
    THEN [ sql |-> Strip(q),
           rows |-> IF store.serialisable THEN "plain" ELSE "decimal",
           explanation |-> "Query executed successfully",
           type |-> "sql_query" ]
    ELSE \* "error": f"SQL execution failed: {str(e)}"
         [ error |-> "SQL execution failed", exception_text |-> store.text,
           sql |-> Strip(q), type |-> "sql_query" ]

\* process_sql_query from the call of execute_sql_safely on
P_Execute ==
  /\ pc = "primary"
  /\ sql_pc = "execute"
  /\ store_log' = Append(store_log, final_sql)
  /\ \E store \in StoreOutcomes :
       sql_result' =
         [ validation_confidence |-> validation_result.confidence,
           cost_estimate |-> validation_result.cost_estimate,
           warnings |-> validation_result.warnings,
           validation_level |-> query_service.validation_level ]
         @@ execute_sql_safely(final_sql, store)
  /\ sql_pc' = "done"
  /\ UNCHANGED <<reviewvars, searchvars, loadvars, vvars, appvars, system_stats, cachevars, clockvars, store_schema,
                 callervars, reqvars, sql, critvars, validation_result,
                 final_sql, docvars, faults>>

RECURSIVE UniqueDocs(_, _)
\* the loop of semantic_search over all_docs: the first document of each
\* key str(doc.get("_id", "")) is kept; the hits carry no "_id" and no "score"
UniqueDocs(all_docs, seen) ==
  IF all_docs = <<>> THEN <<>>
  ELSE LET doc == Head(all_docs)
           doc_id == Get(doc, "_id", "") IN
       IF doc_id \in seen
         THEN UniqueDocs(Tail(all_docs), seen)
         ELSE <<[ id |-> doc_id,
                  content |-> Get(doc, "content", ""),
                  title |-> Get(doc, "title", ""),
                  relevance_score |-> Get(doc, "score", 1) ]>>
              \o UniqueDocs(Tail(all_docs), seen \cup {doc_id})

RECURSIVE SortedByRelevance(_)
\* sorted(docs, key=lambda x: x["relevance_score"], reverse=True): stable
SortedByRelevance(docs) ==
  IF docs = <<>> THEN <<>>
  ELSE LET rest == SortedByRelevance(Tail(docs))
           doc == Head(docs)
           before == SelectSeq(rest, LAMBDA d : d.relevance_score > doc.relevance_score)
           after == SelectSeq(rest, LAMBDA d : d.relevance_score <= doc.relevance_score) IN
       before \o <<doc>> \o after

\* docs[:n]
Take(docs, n) == SubSeq(docs, 1, Min(n, Len(docs)))

\* EnhancedRAGSystem.semantic_search
semantic_search(found) ==
  IF found.kind = "raise"
    THEN <<>>
    ELSE Take(SortedByRelevance(UniqueDocs(found.docs, {})), top_k)

Sources(docs) ==
  [i \in 1 .. Len(docs) |-> [title |-> docs[i].title, relevance |-> docs[i].relevance_score]]

\* process_document_query up to the search result.  The two tasks of a
\* hybrid request share no variable; the document task is run after the
\* SQL task.
P_DocSearch ==
  /\ pc = "primary"
  /\ doc_pc = "search"
  /\ sql_pc \in {"off", "done"}
  /\ \E found \in SearchOutcomes :
       LET docs == semantic_search(found) IN
       /\ documents' = docs
       /\ IF docs = <<>>
            THEN /\ doc_pc' = "done"
                 /\ doc_result' =
                      [ answer |-> <<"No relevant policy documents found for your question.">>,
                        sources |-> <<>>,
                        type |-> "policy_query",
                        confidence |-> 0 ]
            ELSE doc_pc' = "answer" /\ UNCHANGED doc_result
  /\ UNCHANGED <<reviewvars, searchvars, loadvars, vvars, appvars, system_stats, cachevars, clockvars, store_schema,
                 callervars, reqvars, sqlvars, faults>>

\* generate_contextual_answer and the result of process_document_query
P_DocAnswer ==
  /\ pc = "primary"
  /\ doc_pc = "answer"
  /\ \E resp \in AnswerResponses :
       doc_result' =
         [ answer |-> Strip(resp),
           sources |-> Sources(documents),
           type |-> "policy_query",
           confidence |-> 80,
           documents_found |-> Len(documents) ]
  /\ doc_pc' = "done"
  /\ UNCHANGED <<reviewvars, searchvars, loadvars, vvars, appvars, system_stats, cachevars, clockvars, store_schema,
                 callervars, reqvars, sqlvars, documents, faults>>

\* json.dumps(result) raises on rows with Decimal or datetime values
JsonEncodable(result) == Get(result, "rows", "plain") # "decimal"

\* process_query returns the result of the one path it routed to
P_Finish ==
  /\ pc = "primary"
  /\ \/ query_type = "sql" /\ sql_pc = "done" /\ outcome' = sql_result
     \/ query_type = "document" /\ doc_pc = "done" /\ outcome' = doc_result
  /\ pc' = "done"
  /\ served_by' = "primary"
  /\ UNCHANGED <<reviewvars, searchvars, loadvars, vvars, appvars, system_stats, cachevars, clockvars, store_schema,
                 callervars, question, query_type, intent_confidence,
                 sqlvars, docvars, faults>>

\* process_hybrid_query once both tasks are done
P_Synthesize ==
  /\ pc = "primary"
  /\ query_type = "hybrid"
  /\ sql_pc = "done"
  /\ doc_pc = "done"
  /\ IF JsonEncodable(sql_result)
       THEN /\ \E kind \in SynthResponses :
                 outcome' =
                   [ answer |-> SynthesisText(kind, doc_result),
                     sql_result |-> sql_result,
                     policy_context |-> doc_result,
                     type |-> "hybrid_query",
                     confidence |-> Min(Get(sql_result, "validation_confidence", 50),
                                        Get(doc_result, "confidence", 50)) ]
            /\ UNCHANGED faults
       ELSE /\ outcome' = [error |-> "Hybrid processing failed", type |-> "hybrid_query"]
            /\ faults' = faults \cup {"TypeError"}
  /\ pc' = "done"
  /\ served_by' = "primary"
  /\ UNCHANGED <<reviewvars, searchvars, loadvars, vvars, appvars, system_stats, cachevars, clockvars, store_schema,
                 callervars, question, query_type, intent_confidence,
                 sqlvars, docvars>>

(***************************************************************************)
(* The fallback pipeline (AgenticTeamSystem).                              *)
(***************************************************************************)
\* AgenticTeamSystem._format_error_response
FormatErrorResponse(message, errors) ==
  [error |-> message, details |-> errors, type |-> "error"]

Bump(stats, key) == [stats EXCEPT ![key] = @ + 1]

\* process_query up to the dispatch on the intent
F_Route ==
  /\ pc = "fallback_route"
  /\ LET route == RouterAgent_execute(question) IN
     /\ query_type' = route.intent
     /\ intent_confidence' = route.confidence
     /\ StartTasks(route.intent)
     /\ system_stats' =
          Bump(Bump(system_stats, "total_queries"),
               CASE route.intent = "sql" -> "sql_queries"
                 [] route.intent = "document" -> "rag_queries"
                 [] OTHER -> "hybrid_queries")
  /\ pc' = "fallback"
  /\ UNCHANGED <<reviewvars, searchvars, loadvars, vvars, appvars, cachevars, clockvars, store_schema, callervars,
                 question, served_by, outcome, sql, critvars,
                 validation_result, final_sql, sql_result, store_log, documents,
                 doc_result, faults>>

\* _process_sql_query: generation and validation
F_SqlPrepare ==
  /\ pc = "fallback"
  /\ sql_pc = "generate"
  /\ LET generated == generate_sql_pattern_based(question)
         validate_result == SQLValidatorAgent_execute(generated) IN
     /\ sql' = generated
     /\ final_sql' = generated
     /\ validation_result' = validate_result
     /\ IF validate_result.is_valid
          THEN sql_pc' = "execute" /\ UNCHANGED sql_result
          ELSE /\ sql_pc' = "done"
               /\ sql_result' =
                    [ error |-> "Query validation failed",
                      issues |-> validate_result.errors,
                      warnings |-> validate_result.warnings,
                      type |-> "sql_query",
                      sql |-> generated ]
  /\ UNCHANGED <<reviewvars, searchvars, loadvars, vvars, appvars, system_stats, cachevars, clockvars, store_schema,
                 callervars, reqvars, critvars, store_log, docvars, faults>>

\* the query SQLExecutorAgent.execute sends to the store
WithRowCap(q) ==
  IF LimitPresent(q) THEN q ELSE RStripSemicolons(q) \o <<" ", "LIMIT", "1000">>

\* SQLExecutorAgent.execute and the rest of _process_sql_query
F_Execute ==
  /\ pc = "fallback"
  /\ sql_pc = "execute"
  /\ store_log' = Append(store_log, WithRowCap(final_sql))
  /\ \E store \in StoreOutcomes :
       sql_result' =
         IF store.kind = "rows"
           THEN [ sql |-> Strip(WithRowCap(final_sql)),
                  rows |-> IF store.serialisable THEN "plain" ELSE "decimal",
                  explanation |-> "Query executed successfully",
                  type |-> "sql_query",
                  validation_confidence |-> validation_result.confidence,
                  warnings |-> validation_result.warnings,
                  validation_level |-> "production",
                  generation_method |-> "pattern_based" ]
           ELSE FormatErrorResponse("SQL execution failed", <<store.text>>)
  /\ sql_pc' = "done"
  /\ UNCHANGED <<reviewvars, searchvars, loadvars, vvars, appvars, system_stats, cachevars, clockvars, store_schema,
                 callervars, reqvars, sql, critvars, validation_result,
                 final_sql, docvars, faults>>

\* RAGRetrieverAgent.execute: search_policy_documents is a coroutine function
\* and is called without await, so documents is a coroutine object and
\* len(documents) raises TypeError inside the agent's try
RAGRetrieverAgent_execute(q) ==
  [success |-> FALSE, documents |-> <<>>, errors |-> <<"TypeError">>]

\* RAGSynthesizerAgent.execute
RAGSynthesizerAgent_execute(q, docs) ==
  IF docs = <<>>
    THEN [ success |-> TRUE,
           data |-> [answer |-> <<"No relevant policy documents found for your question.">>],
           confidence |-> 0 ]
    ELSE \* f"Based on our policy documents ({', '.join(doc_titles[:2])}), ..."
         [ success |-> TRUE,
           data |-> [ answer |-> <<"Based on our policy documents (">>
                                 \o [i \in 1 .. Min(2, Len(docs)) |-> docs[i].title]
                                 \o <<"), ...">>,
                      sources |-> Sources(docs) ],
           confidence |-> 80 ]

\* _process_document_query
F_Document ==
  /\ pc = "fallback"
  /\ doc_pc = "search"
  /\ LET retrieve_result == RAGRetrieverAgent_execute(question) IN
     IF ~retrieve_result.success
       THEN /\ doc_result' = FormatErrorResponse("Document retrieval failed", retrieve_result.errors)
            /\ UNCHANGED documents
       ELSE LET synthesize_result ==
                  RAGSynthesizerAgent_execute(question, retrieve_result.documents) IN
            /\ documents' = retrieve_result.documents
            /\ doc_result' =
                 IF "sources" \in DOMAIN synthesize_result.data
                   THEN [ answer |-> synthesize_result.data.answer,
                          sources |-> synthesize_result.data.sources,
                          type |-> "policy_query",
                          confidence |-> synthesize_result.confidence,
                          documents_found |-> Len(retrieve_result.documents) ]
                   ELSE \* KeyError 'sources'
                        FormatErrorResponse("Document processing failed", <<"KeyError">>)
  /\ doc_pc' = "done"
  /\ UNCHANGED <<reviewvars, searchvars, loadvars, vvars, appvars, system_stats, cachevars, clockvars, store_schema,
                 callervars, reqvars, sqlvars, faults>>

IsError(result) == result.type = "error"

\* the synthesis of _process_hybrid_query
HybridSynthesis(sql_res, doc_res) ==
  CASE ~IsError(sql_res) /\ ~IsError(doc_res) ->
         <<"Based on our data analysis and policy guidelines: ">>
         \o Get(doc_res, "answer", <<"No policy context available.">>)
         \o <<" The current data shows ">>
         \o <<Get(sql_res, "explanation", "data analysis results")>>
    [] ~IsError(sql_res) ->
         <<"Data analysis shows: ", Get(sql_res, "explanation", "results available")>>
    [] ~IsError(doc_res) ->
         Get(doc_res, "answer", <<"Policy information available">>)
    [] OTHER -> <<"Unable to process hybrid query due to system limitations.">>

\* the dict _process_hybrid_query returns
HybridResponse(sql_res, doc_res) ==
  [ answer |-> HybridSynthesis(sql_res, doc_res),
    sql_result |-> sql_res,
    policy_context |-> doc_res,
    type |-> "hybrid_query",
    confidence |-> Min(Get(sql_res, "validation_confidence", 50),
                       Get(doc_res, "confidence", 50)),
    synthesis_method |-> "template_based" ]

\* process_query from the return of the path on
F_Finish ==
  /\ pc = "fallback"
  /\ sql_pc \in {"off", "done"}
  /\ doc_pc \in {"off", "done"}
  /\ LET result == CASE query_type = "sql" -> sql_result
                     [] query_type = "document" -> doc_result
                     [] OTHER -> HybridResponse(sql_result, doc_result) IN
     /\ outcome' = [routing |-> [intent |-> query_type]] @@ result
     /\ system_stats' =
          IF result.type # "error"
            THEN Bump(system_stats, "successful_queries")
            ELSE system_stats
  /\ pc' = "done"
  /\ served_by' = "fallback"
  /\ UNCHANGED <<reviewvars, searchvars, loadvars, vvars, appvars, cachevars, clockvars, store_schema, callervars,
                 question, query_type, intent_confidence,
                 sqlvars, docvars, faults>>

(***************************************************************************)
(* The environment: the next request.                                      *)
(***************************************************************************)
\* the handler has returned; its locals are gone
NextRequest ==
  /\ pc = "done"
  /\ pc' = "idle"
  /\ question' = QHello
  /\ served_by' = "none"
  /\ outcome' = NoResult
  /\ query_type' = "none"
  /\ intent_confidence' = 0
  /\ sql_pc' = "off"
  /\ sql' = <<>>
  /\ current_sql' = <<>>
  /\ attempt' = 0
  /\ iterations' = 0
  /\ all_errors' = <<>>
  /\ all_warnings' = <<>>
  /\ validation_result' = NoVerdict
  /\ final_sql' = <<>>
  /\ sql_result' = NoResult
  /\ store_log' = <<>>
  /\ doc_pc' = "off"
  /\ documents' = <<>>
  /\ doc_result' = NoResult
  /\ faults' = {}
  /\ review' = NoReview
  /\ UNCHANGED <<searchvars, loadvars, vvars, appvars, system_stats, cachevars, clockvars, store_schema,
                 callervars>>

Next ==
  \/ \E q \in Questions : Receive(q)
  \/ P_Classify
  \/ P_Generate
  \/ P_Validate
  \/ P_CritiqueIteration
  \/ P_CritiqueExhausted
  \/ P_Execute
  \/ P_DocSearch
  \/ P_DocAnswer
  \/ P_Finish
  \/ P_Synthesize
  \/ F_Route
  \/ F_SqlPrepare
  \/ F_Execute
  \/ F_Document
  \/ F_Finish
  \/ NextRequest

Spec == Init /\ [][Next]_vars

(***************************************************************************)
(* Concurrent calls of SmartSQLGenerator.get_schema_info (the fallback's   *)
(* SQLGeneratorAgent.get_schema_info has the same body).  A call runs      *)
(* without interruption up to its await of the store; the store, the       *)
(* clock and the other callers move while it waits.                        *)
(***************************************************************************)
InitCache ==
  /\ ValidatorIdle
  /\ CallersIdle
  /\ CacheInit
  /\ RequestIdle
  /\ StatsInit
  /\ LoadIdle
  /\ SearchIdle
  /\ ReviewIdle
  /\ query_service = [validation_level |-> "moderate", max_fix_attempts |-> MaxAttempts]
  /\ agentic_system = TRUE

\* get_schema_info up to the return of the cached value or the await
C_Call(c) ==
  /\ caller_pc[c] = "idle"
  /\ caller_time' = [caller_time EXCEPT ![c] = now]
  /\ IF CacheFresh(schema_cache, schema_cache_time, now)
       THEN /\ caller_result' = [caller_result EXCEPT ![c] = schema_cache]
            /\ caller_pc' = [caller_pc EXCEPT ![c] = "done"]
            /\ UNCHANGED caller_fetched
       ELSE /\ caller_fetched' = [caller_fetched EXCEPT ![c] = TRUE]
            /\ caller_pc' = [caller_pc EXCEPT ![c] = "fetching"]
            /\ UNCHANGED caller_result
  /\ UNCHANGED <<reviewvars, searchvars, loadvars, vvars, appvars, system_stats, cachevars, clockvars, store_schema,
                 reqvars, sqlvars, docvars, faults>>

\* a refresh that stores the content and leaves the timestamp for later
C_FetchedContentOnly(c) ==
  /\ caller_pc[c] = "fetching"
  /\ \E fetch_ok \in BOOLEAN :
       IF fetch_ok
         THEN /\ schema_cache' = Snapshot(store_schema)
              /\ UNCHANGED schema_cache_time
              /\ caller_result' = [caller_result EXCEPT ![c] = Snapshot(store_schema)]
         ELSE /\ caller_result' = [caller_result EXCEPT ![c] = SchemaUnavailable]
              /\ UNCHANGED cachevars
  /\ caller_pc' = [caller_pc EXCEPT ![c] = "done"]
  /\ UNCHANGED <<reviewvars, searchvars, loadvars, vvars, appvars, system_stats, clockvars, store_schema, caller_time,
                 caller_fetched, reqvars, sqlvars, docvars, faults>>

\* get_schema_info from the end of the await on
C_Fetched(c) ==
  /\ caller_pc[c] = "fetching"
  /\ \E fetch_ok \in BOOLEAN :
       IF fetch_ok
         THEN /\ schema_cache' = Snapshot(store_schema)
              /\ schema_cache_time' = caller_time[c]
              /\ caller_result' = [caller_result EXCEPT ![c] = Snapshot(store_schema)]
         ELSE /\ caller_result' = [caller_result EXCEPT ![c] = SchemaUnavailable]
              /\ UNCHANGED cachevars
  /\ caller_pc' = [caller_pc EXCEPT ![c] = "done"]
  /\ UNCHANGED <<reviewvars, searchvars, loadvars, vvars, appvars, system_stats, clockvars, store_schema, caller_time,
                 caller_fetched, reqvars, sqlvars, docvars, faults>>

\* the caller has used the value; it may call again
C_Return(c) ==
  /\ caller_pc[c] = "done"
  /\ caller_pc' = [caller_pc EXCEPT ![c] = "idle"]
  /\ caller_time' = [caller_time EXCEPT ![c] = 0]
  /\ caller_result' = [caller_result EXCEPT ![c] = None]
  /\ caller_fetched' = [caller_fetched EXCEPT ![c] = FALSE]
  /\ UNCHANGED <<reviewvars, searchvars, loadvars, vvars, appvars, system_stats, cachevars, clockvars, store_schema,
                 reqvars, sqlvars, docvars, faults>>

\* the clock
Tick(d) ==
  /\ ticks < MaxTicks
  /\ ticks' = ticks + 1
  /\ now' = now + d
  /\ UNCHANGED <<reviewvars, searchvars, loadvars, vvars, appvars, system_stats, cachevars, store_schema, callervars,
                 reqvars, sqlvars, docvars, faults>>

\* somebody alters the schema of the relational store
SchemaChange ==
  /\ store_schema < MaxSchemaVersion
  /\ store_schema' = store_schema + 1
  /\ UNCHANGED <<reviewvars, searchvars, loadvars, vvars, appvars, system_stats, cachevars, clockvars, callervars,
                 reqvars, sqlvars, docvars, faults>>

NextCache ==
  \/ \E c \in Callers : C_Call(c)
  \/ \E c \in Callers : C_Fetched(c)
  \/ \E c \in Callers : C_Return(c)
  \/ \E d \in TickSteps : Tick(d)
  \/ SchemaChange

SpecCache == InitCache /\ [][NextCache]_vars

(***************************************************************************)
(* The validators on arbitrary candidate queries: a candidate starts as    *)
(* one of Stems and grows by tokens of Alphabet; each candidate is         *)
(* validated by both validators.                                           *)
(***************************************************************************)
Alphabet ==
  Keywords \cup
  {"drop", "dropped", "SELECT", "select", "UNION", "customers", "xp_cmdshell",
   ";", " ", "\n", "--", "/*", "*/", "(", ")"}

Stems == {<<>>, SelectCustomers, UnionQuery, ScenarioC, StackedSelect, CommentedSelect}

ValidateBoth(q) ==
  /\ cand' = q
  /\ basic_verdict' = validate_basic(q)
  /\ agent_verdict' = SQLValidatorAgent_execute(q)

InitValidate ==
  /\ appended = 0
  /\ \E q \in Stems :
       /\ cand = q
       /\ basic_verdict = validate_basic(q)
       /\ agent_verdict = SQLValidatorAgent_execute(q)
  /\ CallersIdle
  /\ CacheInit
  /\ RequestIdle
  /\ StatsInit
  /\ LoadIdle
  /\ SearchIdle
  /\ ReviewIdle
  /\ query_service = Unbound
  /\ agentic_system = FALSE

V_Append(t) ==
  /\ appended < MaxAppend
  /\ appended' = appended + 1
  /\ ValidateBoth(Append(cand, t))
  /\ UNCHANGED <<reviewvars, searchvars, loadvars, appvars, system_stats, cachevars, clockvars, store_schema,
                 callervars, reqvars, sqlvars, docvars, faults>>

NextValidate == \E t \in Alphabet : V_Append(t)

SpecValidate == InitValidate /\ [][NextValidate]_vars

(***************************************************************************)
(* SchemaService.load_schema (services/database/db.py).  The refresh runs  *)
(* _fetch_schema, _fetch_relationships and _fetch_table_stats under        *)
(* asyncio.gather: each is a coroutine with a connection of its own, and   *)
(* every statement it awaits reads the store as it is at that moment.      *)
(* Other sessions create and drop tables in between.                       *)
(***************************************************************************)
InitSchema ==
  /\ ValidatorIdle
  /\ CallersIdle
  /\ CacheInit
  /\ RequestIdle
  /\ StatsInit
  /\ LoadIdle
  /\ SearchIdle
  /\ ReviewIdle
  /\ query_service = Unbound
  /\ agentic_system = FALSE

\* load_schema up to the return of the cached value or the start of gather
L_Load(force_refresh) ==
  /\ load_pc = "idle"
  /\ IF ~force_refresh /\ redis_schema # None
       THEN /\ load_result' = redis_schema
            /\ load_pc' = "done"
            /\ UNCHANGED <<schema_pc, rel_pc, stats_pc>>
       ELSE /\ load_pc' = "gather"
            /\ schema_pc' = "tables"
            /\ rel_pc' = "fetch"
            /\ stats_pc' = "fetch"
            /\ UNCHANGED load_result
  /\ UNCHANGED <<storevars, redis_schema, table_rows, tables, relationships,
                 table_stats>>
  /\ UNCHANGED <<reviewvars, searchvars, vvars, appvars, system_stats, cachevars, clockvars,
                 store_schema, callervars, reqvars, sqlvars, docvars, faults>>

\* _fetch_schema: the query for the table names, ORDER BY table_name
L_FetchTables ==
  /\ load_pc = "gather"
  /\ schema_pc = "tables"
  /\ table_rows' = SelectSeq(TableOrder, LAMBDA t : t \in db_tables)
  /\ schema_pc' = "columns"
  /\ UNCHANGED <<storevars, redis_schema, load_pc, load_result, tables, rel_pc,
                 relationships, stats_pc, table_stats>>
  /\ UNCHANGED <<reviewvars, searchvars, vvars, appvars, system_stats, cachevars, clockvars,
                 store_schema, callervars, reqvars, sqlvars, docvars, faults>>

\* _fetch_schema: one pass of the loop over table_rows.  $1::regclass raises
\* for a table dropped since the names were read; gather hands the
\* exception to load_schema, which stores nothing.
L_FetchTableInfo ==
  /\ load_pc = "gather"
  /\ schema_pc = "columns"
  /\ table_rows # <<>>
  /\ IF Head(table_rows) \in db_tables
       THEN /\ tables' = tables \cup {Head(table_rows)}
            /\ table_rows' = Tail(table_rows)
            /\ UNCHANGED <<load_pc, schema_pc>>
       ELSE /\ load_pc' = "raised"
            /\ schema_pc' = "off"
            /\ UNCHANGED <<tables, table_rows>>
  /\ UNCHANGED <<storevars, redis_schema, load_result, rel_pc, relationships,
                 stats_pc, table_stats>>
  /\ UNCHANGED <<reviewvars, searchvars, vvars, appvars, system_stats, cachevars, clockvars,
                 store_schema, callervars, reqvars, sqlvars, docvars, faults>>

\* _fetch_schema returns its dict
L_SchemaFetched ==
  /\ load_pc = "gather"
  /\ schema_pc = "columns"
  /\ table_rows = <<>>
  /\ schema_pc' = "done"
  /\ UNCHANGED <<storevars, redis_schema, load_pc, load_result, table_rows, tables,
                 rel_pc, relationships, stats_pc, table_stats>>
  /\ UNCHANGED <<reviewvars, searchvars, vvars, appvars, system_stats, cachevars, clockvars,
                 store_schema, callervars, reqvars, sqlvars, docvars, faults>>

\* _fetch_relationships: one statement over the foreign-key constraints.
\* The coroutine has no handler: when the store raises, gather hands the
\* exception to load_schema, which stores nothing.
L_FetchRelationships ==
  /\ load_pc = "gather"
  /\ rel_pc = "fetch"
  /\ \E store_ok \in BOOLEAN :
       IF store_ok
         THEN /\ relationships' = db_fks
              /\ rel_pc' = "done"
              /\ UNCHANGED load_pc
         ELSE /\ rel_pc' = "failed"
              /\ load_pc' = "raised"
              /\ UNCHANGED relationships
  /\ UNCHANGED <<storevars, redis_schema, load_result, schema_pc,
                 table_rows, tables, stats_pc, table_stats>>
  /\ UNCHANGED <<reviewvars, searchvars, vvars, appvars, system_stats, cachevars, clockvars,
                 store_schema, callervars, reqvars, sqlvars, docvars, faults>>

\* _fetch_table_stats: one statement over pg_class.  No handler here
\* either: a failure of the statement ends load_schema with the exception.
L_FetchTableStats ==
  /\ load_pc = "gather"
  /\ stats_pc = "fetch"
  /\ \E store_ok \in BOOLEAN :
       IF store_ok
         THEN /\ table_stats' = db_tables
              /\ stats_pc' = "done"
              /\ UNCHANGED load_pc
         ELSE /\ stats_pc' = "failed"
              /\ load_pc' = "raised"
              /\ UNCHANGED table_stats
  /\ UNCHANGED <<storevars, redis_schema, load_result, schema_pc,
                 table_rows, tables, rel_pc, relationships>>
  /\ UNCHANGED <<reviewvars, searchvars, vvars, appvars, system_stats, cachevars, clockvars,
                 store_schema, callervars, reqvars, sqlvars, docvars, faults>>

\* the dict load_schema puts together
CompleteSchema ==
  [tables |-> tables, relationships |-> relationships, table_stats |-> table_stats]

\* load_schema after gather: complete_schema, redis.setex, return
L_Store ==
  /\ load_pc = "gather"
  /\ schema_pc = "done"
  /\ rel_pc = "done"
  /\ stats_pc = "done"
  /\ redis_schema' = CompleteSchema
  /\ load_result' = CompleteSchema
  /\ load_pc' = "done"
  /\ UNCHANGED <<storevars, schema_pc, table_rows, tables, rel_pc, relationships,
                 stats_pc, table_stats>>
  /\ UNCHANGED <<reviewvars, searchvars, vvars, appvars, system_stats, cachevars, clockvars,
                 store_schema, callervars, reqvars, sqlvars, docvars, faults>>

\* the caller has the result or the exception; the locals of the call are gone
L_Return ==
  /\ load_pc \in {"done", "raised"}
  /\ load_pc' = "idle"
  /\ load_result' = None
  /\ schema_pc' = "off"
  /\ table_rows' = <<>>
  /\ tables' = {}
  /\ rel_pc' = "off"
  /\ relationships' = {}
  /\ stats_pc' = "off"
  /\ table_stats' = {}
  /\ UNCHANGED <<storevars, redis_schema>>
  /\ UNCHANGED <<reviewvars, searchvars, vvars, appvars, system_stats, cachevars, clockvars,
                 store_schema, callervars, reqvars, sqlvars, docvars, faults>>

\* Redis drops SCHEMA_KEY when its time to live is over
RedisExpire ==
  /\ redis_schema # None
  /\ redis_schema' = None
  /\ UNCHANGED <<storevars, loadvars_call>>
  /\ UNCHANGED <<reviewvars, searchvars, vvars, appvars, system_stats, cachevars, clockvars,
                 store_schema, callervars, reqvars, sqlvars, docvars, faults>>

\* another session creates table t, with or without a foreign key to r
CreateTable(t, r) ==
  /\ schema_changes < MaxSchemaChanges
  /\ t \notin db_tables
  /\ r \in db_tables \cup {"-"}
  /\ db_tables' = db_tables \cup {t}
  /\ db_fks' = IF r = "-" THEN db_fks ELSE db_fks \cup {ForeignKey(t, r)}
  /\ schema_changes' = schema_changes + 1
  /\ UNCHANGED <<redis_schema, loadvars_call>>
  /\ UNCHANGED <<reviewvars, searchvars, vvars, appvars, system_stats, cachevars, clockvars,
                 store_schema, callervars, reqvars, sqlvars, docvars, faults>>

\* another session drops table t (CASCADE): its constraints and those that
\* reference it go with it
DropTable(t) ==
  /\ schema_changes < MaxSchemaChanges
  /\ t \in db_tables
  /\ db_tables' = db_tables \ {t}
  /\ db_fks' = {fk \in db_fks : fk.table # t /\ fk.referenced_table # t}
  /\ schema_changes' = schema_changes + 1
  /\ UNCHANGED <<redis_schema, loadvars_call>>
  /\ UNCHANGED <<reviewvars, searchvars, vvars, appvars, system_stats, cachevars, clockvars,
                 store_schema, callervars, reqvars, sqlvars, docvars, faults>>

NextSchema ==
  \/ \E force_refresh \in BOOLEAN : L_Load(force_refresh)
  \/ L_FetchTables
  \/ L_FetchTableInfo
  \/ L_SchemaFetched
  \/ L_FetchRelationships
  \/ L_FetchTableStats
  \/ L_Store
  \/ L_Return
  \/ RedisExpire
  \/ \E t \in TableNames, r \in TableNames \cup {"-"} : CreateTable(t, r)
  \/ \E t \in TableNames : DropTable(t)

SpecSchema == InitSchema /\ [][NextSchema]_vars

(***************************************************************************)
(* RouterAgent.execute on composed questions: a question is the set of     *)
(* the indicator phrases its lower-cased text contains.                    *)
(***************************************************************************)
\* the phrases the composed questions are put together from
RoutePhrases ==
  {"total", "sum", "count", "average", "top", "highest",
   "policy", "according to", "according to our policy", "qualify as"}

\* a text that contains "according to our policy" contains its parts
PhrasesOfAText(ps) ==
  "according to our policy" \in ps => {"according to", "policy"} \subseteq ps

RouteQuestions ==
  {[text |-> "composed", phrases |-> ps] :
     ps \in {qs \in SUBSET RoutePhrases : PhrasesOfAText(qs)}}

\* the fallback pipeline is about to route a composed question
InitRoute ==
  /\ ValidatorIdle
  /\ CallersIdle
  /\ CacheInit
  /\ StatsInit
  /\ LoadIdle
  /\ SearchIdle
  /\ ReviewIdle
  /\ query_service = Unbound
  /\ agentic_system = TRUE
  /\ pc = "fallback_route"
  /\ question \in RouteQuestions
  /\ served_by = "none"
  /\ outcome = NoResult
  /\ query_type = "none"
  /\ intent_confidence = 0
  /\ sql_pc = "off"
  /\ sql = <<>>
  /\ current_sql = <<>>
  /\ attempt = 0
  /\ iterations = 0
  /\ all_errors = <<>>
  /\ all_warnings = <<>>
  /\ validation_result = NoVerdict
  /\ final_sql = <<>>
  /\ sql_result = NoResult
  /\ store_log = <<>>
  /\ doc_pc = "off"
  /\ documents = <<>>
  /\ doc_result = NoResult
  /\ faults = {"NameError"}

NextRoute == F_Route

SpecRoute == InitRoute /\ [][NextRoute]_vars

(***************************************************************************)
(* The fallback pipeline on the composed questions, from the routing to    *)
(* the outcome.  No composed question has a phrase of a template or one    *)
(* of the words customer, product, order, sales.                           *)
(***************************************************************************)
NextPattern ==
  \/ F_Route
  \/ F_SqlPrepare
  \/ F_Execute
  \/ F_Document
  \/ F_Finish

SpecPattern == InitRoute /\ [][NextPattern]_vars

(***************************************************************************)
(* EnhancedRAGSystem.semantic_search on the hits of its searches: one      *)
(* search per term, at most three terms, each search returning documents   *)
(* of the store by descending text score.                                  *)
(***************************************************************************)
\* all_docs after the loop "for term in search_terms[:3]"
SearchInputs ==
  {r1 : r1 \in TermResults}
  \cup {r1 \o r2 : r1 \in TermResults, r2 \in TermResults}
  \cup {r1 \o r2 \o r3 : r1 \in TermResults, r2 \in TermResults, r3 \in TermResults}

\* the primary pipeline has classified a document question and the searches
\* of semantic_search have returned
InitSearch ==
  /\ ValidatorIdle
  /\ CallersIdle
  /\ CacheInit
  /\ StatsInit
  /\ LoadIdle
  /\ ReviewIdle
  /\ found_docs \in SearchInputs
  /\ query_service = [validation_level |-> "moderate", max_fix_attempts |-> MaxAttempts]
  /\ agentic_system = TRUE
  /\ pc = "primary"
  /\ question = QPolicy
  /\ served_by = "none"
  /\ outcome = NoResult
  /\ query_type = "document"
  /\ intent_confidence = 70
  /\ sql_pc = "off"
  /\ sql = <<>>
  /\ current_sql = <<>>
  /\ attempt = 0
  /\ iterations = 0
  /\ all_errors = <<>>
  /\ all_warnings = <<>>
  /\ validation_result = NoVerdict
  /\ final_sql = <<>>
  /\ sql_result = NoResult
  /\ store_log = <<>>
  /\ doc_pc = "search"
  /\ documents = <<>>
  /\ doc_result = NoResult
  /\ faults = {}

\* semantic_search from the loop over all_docs on
S_Search ==
  /\ pc = "primary"
  /\ doc_pc = "search"
  /\ documents' = semantic_search([kind |-> "hits", docs |-> found_docs])
  /\ doc_pc' = "searched"
  /\ UNCHANGED <<reviewvars, searchvars, loadvars, vvars, appvars, system_stats, cachevars, clockvars,
                 store_schema, callervars, reqvars, sqlvars, doc_result, faults>>

NextSearch == S_Search

SpecSearch == InitSearch /\ [][NextSearch]_vars

(***************************************************************************)
(* Properties.                                                             *)
(***************************************************************************)
\* the spellings of the mutating keywords that occur in the texts of the model
MutatingSpellings ==
  {"INSERT", "UPDATE", "DELETE", "DROP", "TRUNCATE", "ALTER", "CREATE", "GRANT",
   "REVOKE", "update", "drop"}

HasMutatingKeyword(q) == \E i \in 1 .. Len(q) : q[i] \in MutatingSpellings

HasVerdict == "is_valid" \in DOMAIN validation_result

\* one query per spelling: SELECT <keyword> FROM customers
KeywordProbes == {<<"SELECT", k, "FROM", "customers">> : k \in MutatingSpellings}

\* both validators reject every probe
ProbesRejected ==
  \A q \in KeywordProbes :
    ~validate_basic(q).is_valid /\ ~SQLValidatorAgent_execute(q).is_valid

\* C1: at every level of the primary validator and in the fallback validator,
\* a query that contains a mutating keyword, in any letter case, never has a
\* verdict with is_valid = true, whatever the service answered and whatever
\* rewrites the critique loop went through.
C1_MutatingKeywordNeverValid ==
  /\ (HasVerdict /\ validation_result.is_valid) => ~HasMutatingKeyword(final_sql)
  /\ ProbesRejected

\* C1 witness: at the strict level, after a rewrite, a query with a mutating
\* keyword has received its verdict
C1_Witness ==
  /\ query_service # Unbound
  /\ query_service.validation_level = "strict"
  /\ attempt > 0
  /\ HasVerdict
  /\ ~validation_result.is_valid
  /\ HasMutatingKeyword(final_sql)

RowCap == <<" ", "LIMIT", "1000">>

\* C2: the store is sent a query only after a verdict with is_valid = true for
\* that query (up to an appended row cap) in the same request; a request whose
\* final verdict is invalid ends with the validation failure that carries the
\* verdict's error and warning lists, and nothing is executed.
C2_ExecuteOnlyValidated ==
  /\ \A i \in 1 .. Len(store_log) :
       /\ HasVerdict
       /\ validation_result.is_valid
       /\ store_log[i] \in {final_sql, final_sql \o RowCap}
  /\ (HasVerdict /\ ~validation_result.is_valid) =>
       /\ store_log = <<>>
       /\ sql_pc = "done"
       /\ sql_result.error = "Query validation failed"
       /\ sql_result.issues = validation_result.errors
       /\ sql_result.warnings = validation_result.warnings

\* C2 witness: the primary pipeline has executed the query it validated
C2_Witness ==
  /\ served_by = "primary"
  /\ HasVerdict
  /\ validation_result.is_valid
  /\ store_log = <<final_sql>>

InCritique ==
  /\ query_service # Unbound
  /\ query_service.validation_level \in {"strict", "paranoid"}

\* C3 as claimed: validate_with_critique performs at most max_attempts
\* iterations and then returns a (query, verdict) pair, for every initial
\* query, every behaviour of the service and every configured max_attempts.
C3_CritiqueReturnsPair ==
  (InCritique /\ pc = "primary" /\ sql_pc \in {"execute", "done"}) =>
    /\ iterations <= query_service.max_fix_attempts
    /\ HasVerdict

\* C4 as claimed: when a stage of the primary pipeline raises while a question
\* is processed, the caller receives the outcome of the fallback pipeline.
C4_FaultLeadsToFallback ==
  (pc = "done" /\ faults \ {"NameError"} # {}) => served_by = "fallback"

IsInfix(a, b) ==
  \E i \in 0 .. Len(b) - Len(a) : SubSeq(b, i + 1, i + Len(a)) = a

\* C5 as claimed: in hybrid processing, when the SQL result is a failure and
\* the document result a success, the merged answer is non-empty and derived
\* from the document answer.
C5_HybridAnswerFromDocument ==
  (/\ pc = "done"
   /\ query_type = "hybrid"
   /\ "error" \in DOMAIN sql_result
   /\ "answer" \in DOMAIN doc_result
   /\ "error" \notin DOMAIN doc_result) =>
    /\ "answer" \in DOMAIN outcome
    /\ outcome.answer # <<>>
    /\ IsInfix(doc_result.answer, outcome.answer)

Blank == {" ", "\n"}

\* a ';' with a further statement behind it
HasStackedStatement(q) ==
  \E i \in 1 .. Len(q) :
    /\ q[i] = ";"
    /\ \E j \in i + 1 .. Len(q) : q[j] \notin Blank \cup {";"}

\* C6 as claimed: BASIC rejects, with an injection-pattern error, every query
\* with stacked statements, whatever the keyword of the further statement.
C6_StackedStatementsRejected ==
  HasStackedStatement(cand) =>
    /\ ~basic_verdict.is_valid
    /\ \E i \in 1 .. Len(basic_verdict.errors) :
         basic_verdict.errors[i] \notin
           {"Write operations are forbidden. Only SELECT queries allowed.",
            "Query must start with SELECT", "Unmatched parentheses in query"}

Occurrences(q, t) == Cardinality({i \in 1 .. Len(q) : q[i] = t})

\* a read-only query without mutating keyword: it starts with SELECT, is a
\* single statement and closes what it opens
ReadOnlyWellFormed(q) ==
  /\ q # <<>>
  /\ q[1] \in {"SELECT", "select"}
  /\ ~HasMutatingKeyword(q)
  /\ \A i \in 1 .. Len(q) : q[i] # ";"
  /\ Occurrences(q, "(") = Occurrences(q, ")")
  /\ Occurrences(q, "/*") = Occurrences(q, "*/")

SameLine(q, i, j) == \A k \in i .. j : q[k] # "\n"

\* no UNION with a SELECT behind it on the same line, no "--" comment that a
\* newline ends, no "/*" comment closed on the same line, no xp_cmdshell
NoUnionNorComment(q) ==
  /\ \A i \in 1 .. Len(q) : q[i] # "xp_cmdshell"
  /\ ~\E i, j \in 1 .. Len(q) :
        i < j /\ q[i] = "UNION" /\ q[j] \in {"SELECT", "select"} /\ SameLine(q, i, j)
  /\ ~\E i, j \in 1 .. Len(q) : i < j /\ q[i] = "--" /\ q[j] = "\n"
  /\ ~\E i, j \in 1 .. Len(q) :
        i < j /\ q[i] = "/*" /\ q[j] = "*/" /\ SameLine(q, i, j)

C9_SingleRefresh ==
  Cardinality({c \in Callers : caller_pc[c] = "fetching"}) <= 1

\* C10 as claimed: a refresh that fails while a previously fetched snapshot is
\* still held gives its caller that snapshot; the "schema unavailable" marker
\* is returned only when no snapshot has ever been cached.
C10_StaleServedOnFailure ==
  [][\A c \in Callers :
       (/\ caller_pc[c] = "fetching"
        /\ caller_pc'[c] = "done"
        /\ schema_cache' = schema_cache
        /\ schema_cache # None
        /\ caller_time[c] - schema_cache_time >= 600) =>
         caller_result'[c] = schema_cache]_vars

C13_ClassificationErrorDefaults ==
  "ValueError" \in faults =>
    /\ query_type = "document"
    /\ intent_confidence = 30
    /\ pc = "done" => (served_by = "primary" /\ outcome = doc_result)

\* the query has a LIMIT clause
HasExplicitCap(q) == \E i \in 1 .. Len(q) : q[i] \in {"LIMIT", "limit"}

\* C14 as claimed: a validated query without explicit row cap is sent to the
\* store with a row cap of max_rows (1000) appended, in the primary and in the
\* fallback executor; a query with an explicit cap is sent unchanged.
C14_RowCapSent ==
  \A i \in 1 .. Len(store_log) :
    IF HasExplicitCap(final_sql)
      THEN store_log[i] = final_sql
      ELSE /\ Len(store_log[i]) >= 2
           /\ SubSeq(store_log[i], Len(store_log[i]) - 1, Len(store_log[i]))
                = <<"LIMIT", "1000">>

\* the store raised while it executed the validated query of this request
StoreFailed ==
  /\ store_log # <<>>
  /\ sql_pc = "done"
  /\ "rows" \notin DOMAIN sql_result

\* the texts an outcome carries besides its message
CarriedTexts(result) ==
  {Get(result, "exception_text", "")}
  \cup {Get(result, "details", <<>>)[i] : i \in 1 .. Len(Get(result, "details", <<>>))}

\* C15 as claimed: when the store fails on a validated query, the outcome of
\* the request, in either pipeline, is an execution error that carries the
\* store's error text and the query text.
C15_ExecutionErrorCarriesQuery ==
  (pc = "done" /\ query_type = "sql" /\ StoreFailed) =>
    /\ "error" \in DOMAIN outcome
    /\ outcome.error = "SQL execution failed"
    /\ StoreErrorText \in CarriedTexts(outcome)
    /\ "sql" \in DOMAIN outcome
    /\ outcome.sql = Strip(store_log[1])

\* C16 as claimed: a request of the DOCUMENT path whose retrieval failed (the
\* search raised, or the retriever faulted) ends, in both pipelines, with
\* the fixed "no relevant documents" answer at confidence 0 and never with
\* an error outcome.
C16_RetrievalFailureDegrades ==
  (pc = "done" /\ query_type = "document" /\ documents = <<>>) =>
    /\ "error" \notin DOMAIN outcome
    /\ "answer" \in DOMAIN outcome
    /\ outcome.answer = <<"No relevant policy documents found for your question.">>
    /\ outcome.confidence = 0

RECURSIVE FirstOccurrences(_, _)
\* the documents of docs, each identifier once, at its first occurrence
FirstOccurrences(docs, seen) ==
  IF docs = <<>> THEN <<>>
  ELSE IF Head(docs).id \in seen
    THEN FirstOccurrences(Tail(docs), seen)
    ELSE <<Head(docs)>> \o FirstOccurrences(Tail(docs), seen \cup {Head(docs).id})

\* C17 as claimed: when the searches yield d distinct documents, semantic_search
\* returns min(top_k, d) of them, each identifier once, being the first
\* occurrence of its document, the highest scores first
C17_TopDistinctDocuments ==
  doc_pc = "searched" =>
    LET distinct == FirstOccurrences(found_docs, {})
        d == Len(distinct) IN
    /\ Len(documents) = Min(top_k, d)
    /\ \A i \in 1 .. Len(documents) :
         \E j \in 1 .. d : /\ documents[i].title = distinct[j].title
                           /\ documents[i].content = distinct[j].content
    /\ \A i, j \in 1 .. Len(documents) : i # j => documents[i].title # documents[j].title
    /\ \A i \in 1 .. Len(documents) - 1 :
         documents[i].relevance_score >= documents[i + 1].relevance_score

\* C18 as claimed: in the fallback pipeline the processing of the document
\* question "What is our policy on slow-moving inventory?" ends, whatever the
\* document store holds, with at least one retrieved document and with a
\* DOCUMENT answer whose text names the title of a retrieved document.
C18_FallbackDocumentAnswer ==
  (pc = "done" /\ served_by = "fallback" /\ question = QPolicy) =>
    /\ documents # <<>>
    /\ outcome.type = "policy_query"
    /\ "answer" \in DOMAIN outcome
    /\ \E i \in 1 .. Len(documents), j \in 1 .. Len(outcome.answer) :
         outcome.answer[j] = documents[i].title

\* the keys under which an outcome could carry a reason code
ReasonCodeKeys == {"code", "reason", "reason_code", "error_code"}

\* C19 as claimed: when the relational store fails on the query of a request,
\* the request ends with a structured outcome that has a message and a
\* reason code, and the text of the store's exception is not in it.
C19_StructuredFailure ==
  (pc = "done" /\ query_type = "sql" /\ StoreFailed) =>
    /\ "error" \in DOMAIN outcome
    /\ ReasonCodeKeys \cap DOMAIN outcome # {}
    /\ StoreErrorText \notin CarriedTexts(outcome)

\* an outcome that is a failure: it carries an error, or it is a hybrid
\* outcome both of whose paths failed
FailureOutcome(result) ==
  \/ "error" \in DOMAIN result
  \/ /\ result.type = "hybrid_query"
     /\ "sql_result" \in DOMAIN result
     /\ "error" \in DOMAIN result.sql_result
     /\ "error" \in DOMAIN result.policy_context

\* C20 as claimed: every step leaves each statistic of the fallback pipeline
\* at its value or above, keeps successful_queries <= total_queries, and
\* raises successful_queries only for a request whose outcome is not a
\* failure.
C20_StatsMonotone ==
  [][ /\ \A k \in DOMAIN system_stats : system_stats'[k] >= system_stats[k]
      /\ system_stats'.successful_queries <= system_stats'.total_queries
      /\ system_stats'.successful_queries > system_stats.successful_queries
           => ~FailureOutcome(outcome') ]_vars

\* C21: for one question the fallback pipeline starts at most once, at the
\* moment the primary attempt has ended with a fault and with no task of the
\* primary in progress; once started it runs to the end of the request and
\* neither the primary nor a second fallback starts after it.
C21_FallbackAfterPrimaryFailure ==
  [][ /\ pc' = "fallback_route" =>
           /\ pc = "idle"
           /\ faults' # {}
           /\ sql_pc = "off" /\ doc_pc = "off"
      /\ pc \in {"fallback_route", "fallback"} => pc' \in {"fallback", "done"}
      /\ pc' \in {"classify", "primary"} => pc \in {"idle", "classify", "primary"} ]_vars

\* C21 witness: a request whose primary attempt faulted has been served by
\* the fallback pipeline
C21_Witness ==
  /\ pc = "done"
  /\ served_by = "fallback"
  /\ "NameError" \in faults
  /\ system_stats.total_queries >= 1

\* C22: the content and the timestamp of the schema cache change only
\* together, in the one step in which a refresh ends, to the snapshot that
\* refresh fetched and the time that refresh took; a caller that is answered
\* from the cache gets the content the cache holds at that step, whole.
C22_AtomicSwap ==
  [][ /\ (schema_cache' # schema_cache \/ schema_cache_time' # schema_cache_time) =>
           \E c \in Callers :
             /\ caller_pc[c] = "fetching"
             /\ schema_cache' = Snapshot(store_schema)
             /\ schema_cache_time' = caller_time[c]
      /\ \A c \in Callers :
           (caller_pc[c] = "idle" /\ caller_pc'[c] = "done") =>
             /\ caller_result'[c] = schema_cache
             /\ UNCHANGED <<schema_cache, schema_cache_time>> ]_vars

\* C22 witness: one caller has been answered from the cache, filled by an
\* earlier refresh, while the refresh of the other caller is in progress
C22_Witness ==
  \E a, b \in Callers :
    /\ a # b
    /\ caller_pc[a] = "fetching"
    /\ caller_pc[b] = "done"
    /\ ~caller_fetched[b]
    /\ schema_cache # None
    /\ caller_result[b] = schema_cache

Messages(list) == {list[i] : i \in 1 .. Len(list)}

\* C24 as claimed: a read-only candidate whose only defect is an unequal
\* number of "(" and ")" is valid for the primary's BASIC validation and for
\* the fallback validator alike, with the parenthesis message among the
\* warnings and not among the errors.
C24_ParenthesesWarnOnly ==
  ( /\ StartsWithSelect(cand)
    /\ ~ForbiddenMatch(cand)
    /\ InjectionErrors(cand) = <<>>
    /\ UnmatchedParens(cand) ) =>
      /\ basic_verdict.is_valid
      /\ MsgParens \in Messages(basic_verdict.warnings)
      /\ MsgParens \notin Messages(basic_verdict.errors)
      /\ agent_verdict.is_valid
      /\ MsgParens \in Messages(agent_verdict.warnings)
      /\ MsgParens \notin Messages(agent_verdict.errors)

\* the verdict of a MODERATE validation of a query that passed BASIC is in
\* validation_result
ModerateReviewDone ==
  /\ pc = "primary"
  /\ query_service # Unbound
  /\ query_service.validation_level = "moderate"
  /\ validation_result # NoVerdict
  /\ validate_basic(sql).is_valid

\* C25 as claimed: at MODERATE no answer of the model, however malformed,
\* makes the validation fail outright with a validation error; a verdict on
\* an answer that is not the structured opinion is invalid exactly when the
\* lexical heuristic found one of its words.
C25_MalformedReviewUsesHeuristic ==
  ModerateReviewDone =>
    /\ MsgAiError \notin Messages(validation_result.errors)
    /\ MsgAiFormat \in Messages(validation_result.warnings) =>
         (validation_result.is_valid <=>
            Messages(validation_result.errors) \cap {MsgAiUnsafe, MsgAiIncorrect} = {})

\* validate_with_critique has returned an invalid verdict
CritiqueReturnedInvalid ==
  /\ pc = "primary"
  /\ query_service # Unbound
  /\ query_service.validation_level \in {"strict", "paranoid"}
  /\ validation_result # NoVerdict
  /\ ~validation_result.is_valid

\* C26 as claimed: an invalid verdict of the critique-fix loop carries a
\* suggested fix whenever a rewrite replaced the current query during the
\* loop, and the suggested fix is then the last such rewrite.
C26_SuggestedFixIsLastRewrite ==
  (CritiqueReturnedInvalid /\ attempt >= 1) =>
    validation_result.suggested_fix = <<current_sql>>

\* C27 as claimed: when the pattern-based generator has returned the
\* "unrecognized pattern" query, the verdict of the validation step marks
\* the case (it is invalid, or it has an error or a warning), and the SQL
\* path does not answer with rows as for a recognised query.
C27_UnrecognizedPatternDetected ==
  (pc \in {"fallback", "done"} /\ sql = TplNotRecognized) =>
    /\ validation_result # NoVerdict
    /\ \/ ~validation_result.is_valid
       \/ validation_result.errors # <<>>
       \/ validation_result.warnings # <<>>
    /\ "rows" \notin DOMAIN sql_result

\* validate_with_critique has returned a valid verdict on final_sql; review
\* is the model's answer on that query
CritiqueReturnedValid ==
  /\ query_service # Unbound
  /\ query_service.validation_level \in {"strict", "paranoid"}
  /\ validation_result # NoVerdict
  /\ validation_result.is_valid

\* C28 as claimed: a query the critique-fix loop returns as valid has a valid
\* BASIC verdict and a valid verdict of the model (safe and correct): it is
\* a query MODERATE accepts on the same answer of the model.
C28_StrictAtLeastModerate ==
  CritiqueReturnedValid =>
    /\ validate_basic(final_sql).is_valid
    /\ validate_with_ai(review).is_valid

\* C29 as claimed: the invalid verdict the critique-fix loop returns with the
\* query final_sql was computed on final_sql: its errors are the errors of
\* BASIC on final_sql followed by the errors of the model's review.
C29_VerdictDescribesReturnedQuery ==
  CritiqueReturnedInvalid =>
    validation_result.errors
      = validate_basic(final_sql).errors \o validate_with_ai(review).errors

\* C30 as claimed: at MODERATE, when the call of the model service for the
\* review failed (service unavailable, timeout, error status), the verdict
\* is not valid and the query is not sent to the store.
C30_ReviewFailsClosed ==
  ( /\ query_service # Unbound
    /\ query_service.validation_level = "moderate"
    /\ validation_result # NoVerdict
    /\ review.kind = "error_text" ) =>
      /\ ~validation_result.is_valid
      /\ store_log = <<>>

====
